---- MODULE Spec2Model ----
(***************************************************************************)
(* MeterReader: the CSV codec (csv-service.ts), the reading value          *)
(* normalizer (opencv-service.ts) and the 7-segment decoding pipeline      *)
(* (use-opencv hook).                                                      *)
(*                                                                         *)
(* A JavaScript string is modelled as a sequence of one-character strings, *)
(* so that splitting, trimming, quoting and formatting are computed        *)
(* character by character as the code computes them.                       *)
(***************************************************************************)
EXTENDS Integers, Sequences, FiniteSets, TLC

VARIABLES
    pc,            \* position of the operation under way
    readings,      \* CSV codec: the Reading[] handed to generateCSV
    csvContent,    \* CSV codec: the text handed to parseCSV
    csvResult,     \* CSV codec: what parseCSV returned or threw
    fields,        \* CSV line: the field strings to escape
    line,          \* CSV line: the escaped fields joined by commas
    lineValues,    \* CSV line: what parseCSVLine returned
    rawValue,      \* normalizer: the input string
    formatted,     \* normalizer: formatReadingValue(rawValue)
    reformatted,   \* normalizer: formatReadingValue(formatted)
    segments,      \* decoder: the SegmentState
    digit,         \* decoder: segmentsToDigit(segments)
    isReady,       \* detector: the vision library is loaded
    contourRects,  \* detector: boundingRect of each contour, in contour order
    digitRegions,  \* detector: what detectDisplay returned
    binaryImage,   \* extractor: the thresholded image
    digitRect,     \* extractor: the digit region analysed
    segmentStates, \* extractor: what analyzeSegments returned
    scoredSegments, \* scorer: the SegmentState of each digit
    confidence,    \* scorer: what calculateConfidence returned
    raises,        \* pipeline: the step of this run that raises, if any
    detection,     \* pipeline: what the 7-segment processImage returned or threw
    ocrReady,      \* OCR hook: isReady
    isInitialized, \* OCR service: isInitialized
    worker,        \* OCR service: the worker
    recognition,   \* OCR service: what worker.recognize yields
    ocrResult,     \* OCR hook: how processImage's promise settled
    captureMode,   \* CameraView: the captureMode prop
    cameraActive,  \* CameraView: the camera hook's isActive
    videoReady,    \* CameraView: the video element has dimensions
    autoInterval,  \* CameraView: the timer handle held in state, 0 for null
    intervals,     \* browser: the interval timers not cleared
    retries,       \* browser: the pending 500 ms retries of checkVideoReady
    cleanupHandle, \* CameraView: the handle the auto-capture effect's cleanup holds
    nextTimer,     \* browser: the next timer handle
    frames,        \* CameraView: the processFrame calls that await processImage
    isProcessing,  \* CameraView: isProcessing
    currentReading, \* CameraView: currentReading
    mutationPending, \* CameraView: createReadingMutation.isPending
    savedAutoInterval, \* settings: the saved autoInterval, in seconds
    readingConfidence, \* CameraView: confidence, in hundredths
    lastResult,    \* CameraView: what processImage gave the capture completed last
    posted,        \* CameraView: the reading that capture handed to the mutation
    mounted,       \* Home: CameraView is mounted
    readingsMap,   \* MemStorage: the readings Map, in insertion order
    settingsMap,   \* MemStorage: the settings Map, in insertion order
    seeded,        \* MemStorage: the default settings written so far
    nextId,        \* the UUIDs drawn so far, plus one
    request,       \* server: the request handled last
    response,      \* server: its response
    currentPage,   \* DataView: currentPage
    itemsPerPage,  \* DataView: the page size
    pages,         \* DataView: the readings of the pages fetched since the view opened
    replayReadings, \* ReplayView: readings, as the file loaded and its length
    currentIndex,  \* ReplayView: currentIndex
    playbackState, \* ReplayView: playbackState
    intervalRef,   \* ReplayView: intervalRef.current, 0 for null
    playbackTimers, \* browser: the playback interval timers not cleared
    nextPlaybackTimer, \* browser: the next playback timer handle
    spoken,        \* speechService: the readings handed to speakReading since playback last started
    workerId,      \* TesseractService: which worker this.worker holds, 0 for null
    workers,       \* tesseract.js: the workers created
    liveWorkers,   \* tesseract.js: the workers created and not terminated
    initCalls,     \* TesseractService: the initialize calls under way, with the hook awaiting each
    terminateCalls, \* TesseractService: the terminate calls awaiting worker.terminate()
    hookMounted,   \* useTesseract: the mounted instance of the hook, 0 for none
    nextHook,      \* useTesseract: the instances mounted so far, plus one
    stream,        \* useCamera: state.stream, the id of the stream held, 0 for null
    isActive,      \* useCamera: state.isActive
    isLoading,     \* useCamera: state.isLoading
    cameraError,   \* useCamera: state.error, "null" or the message
    streams,       \* the streams getUserMedia has handed out
    stoppedStreams, \* the streams whose tracks have all been stopped
    acquisition,   \* the getUserMedia call startCamera is awaiting
    starts,        \* calls of startCamera so far
    hookAlive      \* the component using useCamera is mounted

vars == <<pc, readings, csvContent, csvResult, fields, line, lineValues,
          rawValue, formatted, reformatted, segments, digit, isReady,
          contourRects, digitRegions, binaryImage, digitRect, segmentStates,
          scoredSegments, confidence, raises, detection, ocrReady,
          isInitialized, worker, recognition, ocrResult, captureMode,
          cameraActive, videoReady, autoInterval, intervals, retries,
          cleanupHandle, nextTimer, frames, isProcessing, currentReading,
          mutationPending, savedAutoInterval, readingConfidence, lastResult,
          posted, mounted, readingsMap, settingsMap, seeded, nextId, request,
          response, currentPage, itemsPerPage, pages, replayReadings,
          currentIndex, playbackState, intervalRef, playbackTimers,
          nextPlaybackTimer, spoken, workerId, workers, liveWorkers,
          initCalls, terminateCalls, hookMounted, nextHook, stream, isActive,
          isLoading, cameraError, streams, stoppedStreams, acquisition,
          starts, hookAlive>>

-----------------------------------------------------------------------------
(* Bounds of the model.                                                    *)

MaxReadings == 2   \* longest Reading[] exported
MaxRows == 2       \* most data lines in an imported file
MaxFields == 2     \* most fields on one escaped line
MaxLineChars == 5  \* most characters in the fields of one escaped line, the
                   \* marks between the fields counted
MaxRawLen == 5     \* longest raw value normalized
MaxContours == 2   \* most contours found in one image

-----------------------------------------------------------------------------
(* JavaScript string primitives.                                           *)

\* String.prototype.trim removes these (and other Unicode white space).
WhiteSpace == {" ", "\t", "\r", "\n"}

RECURSIVE TrimStart(_)
TrimStart(s) ==
    IF s # <<>> /\ Head(s) \in WhiteSpace THEN TrimStart(Tail(s)) ELSE s

RECURSIVE TrimEnd(_)
TrimEnd(s) ==
    IF s # <<>> /\ s[Len(s)] \in WhiteSpace
    THEN TrimEnd(SubSeq(s, 1, Len(s) - 1))
    ELSE s

Trim(s) == TrimEnd(TrimStart(s))

\* String.prototype.split(sep) for a one-character separator: the pieces between
\* the occurrences of sep, in order; "" splits to [""].
Split(s, sep) ==
    LET at == {i \in 1..Len(s) : s[i] = sep}
        n == Cardinality(at)
        \* the k-th occurrence of sep; 0 before the first, Len(s) + 1 after the last
        pos(k) == IF k = 0 THEN 0
                  ELSE IF k = n + 1 THEN Len(s) + 1
                  ELSE CHOOSE i \in at : Cardinality({j \in at : j < i}) = k - 1
    IN  [k \in 1..(n + 1) |-> SubSeq(s, pos(k - 1) + 1, pos(k) - 1)]

\* Array.prototype.join(sep).
RECURSIVE Join(_, _)
Join(parts, sep) ==
    IF parts = <<>> THEN <<>>
    ELSE IF Len(parts) = 1 THEN parts[1]
    ELSE parts[1] \o sep \o Join(Tail(parts), sep)

UpperCase == <<"A","B","C","D","E","F","G","H","I","J","K","L","M",
               "N","O","P","Q","R","S","T","U","V","W","X","Y","Z">>
LowerCase == <<"a","b","c","d","e","f","g","h","i","j","k","l","m",
               "n","o","p","q","r","s","t","u","v","w","x","y","z">>

LowerChar(c) ==
    IF \E i \in 1..Len(UpperCase) : UpperCase[i] = c
    THEN LowerCase[CHOOSE i \in 1..Len(UpperCase) : UpperCase[i] = c]
    ELSE c

ToLowerCase(s) == [i \in 1..Len(s) |-> LowerChar(s[i])]

Includes(s, c) == \E i \in 1..Len(s) : s[i] = c

\* Array.prototype.indexOf, 1-based; 0 stands for JavaScript's -1.
IndexOf(arr, x) ==
    IF \E i \in 1..Len(arr) : arr[i] = x
    THEN CHOOSE i \in 1..Len(arr) : arr[i] = x /\ \A j \in 1..(i - 1) : arr[j] # x
    ELSE 0

Digits == <<"0","1","2","3","4","5","6","7","8","9">>
IsDigit(c) == \E i \in 1..10 : Digits[i] = c
DigitValue(c) == (CHOOSE i \in 1..10 : Digits[i] = c) - 1
DigitChar(n) == Digits[n + 1]

\* The characters of a decimal number: [0-9.\-].
DecimalChars == {"0","1","2","3","4","5","6","7","8","9",".","-"}

Pad2(n) == <<DigitChar(n \div 10), DigitChar(n % 10)>>
Pad3(n) == <<DigitChar(n \div 100), DigitChar((n \div 10) % 10), DigitChar(n % 10)>>

\* All sequences over S of length 0..n.
SeqsUpTo(S, n) == UNION {[1..k -> S] : k \in 0..n}

-----------------------------------------------------------------------------
(* Date. An instant is its time value in milliseconds; the model covers    *)
(* the instants of 1970-01-01 (UTC), 0 .. 86399999.                        *)

\* The time value of an invalid Date (isNaN(date.getTime())).
NaN == -1

DatePrefix == <<"1","9","7","0","-","0","1","-","0","1","T">>

\* An ISO string cut to the second.
ToISOStringWholeSeconds(t) ==
    DatePrefix \o Pad2(t \div 3600000) \o <<":">> \o Pad2((t \div 60000) % 60)
        \o <<":">> \o Pad2((t \div 1000) % 60) \o <<".", "0", "0", "0", "Z">>

\* Date.prototype.toISOString: YYYY-MM-DDTHH:mm:ss.sssZ.
ToISOString(t) ==
    DatePrefix \o Pad2(t \div 3600000) \o <<":">> \o Pad2((t \div 60000) % 60)
        \o <<":">> \o Pad2((t \div 1000) % 60) \o <<".">> \o Pad3(t % 1000)
        \o <<"Z">>

\* new Date(string).getTime() for the date-time form toISOString emits; a string
\* not of that form is an invalid Date here (the files of the model hold no
\* date-only or implementation-parsed timestamps, and no day but 1970-01-01).
DateParse(s) ==
    IF /\ Len(s) = 24
       /\ SubSeq(s, 1, 11) = DatePrefix
       /\ s[14] = ":" /\ s[17] = ":" /\ s[20] = "." /\ s[24] = "Z"
       /\ \A i \in {12, 13, 15, 16, 18, 19, 21, 22, 23} : IsDigit(s[i])
    THEN LET hh == DigitValue(s[12]) * 10 + DigitValue(s[13])
             mm == DigitValue(s[15]) * 10 + DigitValue(s[16])
             ss == DigitValue(s[18]) * 10 + DigitValue(s[19])
             ms == DigitValue(s[21]) * 100 + DigitValue(s[22]) * 10
                       + DigitValue(s[23])
         IN  IF hh < 24 /\ mm < 60 /\ ss < 60
             THEN ((hh * 60 + mm) * 60 + ss) * 1000 + ms
             ELSE NaN
    ELSE NaN

-----------------------------------------------------------------------------
(* CSVService (csv-service.ts).                                            *)

S_timestamp == <<"t","i","m","e","s","t","a","m","p">>
S_value == <<"v","a","l","u","e">>
S_quantity == <<"q","u","a","n","t","i","t","y">>
S_unit == <<"u","n","i","t">>
S_mode == <<"m","o","d","e">>
S_confidence == <<"c","o","n","f","i","d","e","n","c","e">>
S_manual == <<"m","a","n","u","a","l">>
S_auto == <<"a","u","t","o">>

\* JavaScript's null and undefined: no string of characters equals them.
Null == <<"<null>">>
Undefined == <<"<undefined>">>

\* JavaScript's null where an object is expected: no record of the model has
\* this field.
NullObject == [null |-> TRUE]

\* !a on strings: "", null and undefined are falsy ("0" is not).
Falsy(a) == a = <<>> \/ a = Null \/ a = Undefined

\* a || b
OrElse(a, b) == IF Falsy(a) THEN b ELSE a

\* field.replace(/"/g, '""')
RECURSIVE DoubleQuotes(_)
DoubleQuotes(s) ==
    IF s = <<>> THEN <<>>
    ELSE IF Head(s) = "\"" THEN <<"\"", "\"">> \o DoubleQuotes(Tail(s))
    ELSE <<Head(s)>> \o DoubleQuotes(Tail(s))

EscapeNoQuoteDoubling(field) ==
    IF Includes(field, ",") \/ Includes(field, "\"") \/ Includes(field, "\n")
    THEN <<"\"">> \o field \o <<"\"">>
    ELSE field

escapeCsvField(field) ==
    IF Includes(field, ",") \/ Includes(field, "\"") \/ Includes(field, "\n")
    THEN <<"\"">> \o DoubleQuotes(field) \o <<"\"">>
    ELSE field

CsvHeaders == <<S_timestamp, S_value, S_quantity, S_unit, S_mode, S_confidence>>

\* One element of csvRows.
CsvRow(reading) ==
    Join(<<ToISOString(reading.timestamp),
           reading.value,
           escapeCsvField(reading.quantity),
           escapeCsvField(reading.unit),
           reading.mode,
           OrElse(reading.confidence, <<"0">>)>>, <<",">>)

generateCSV(rs) ==
    IF Len(rs) = 0
    THEN Join(CsvHeaders, <<",">>) \o <<"\n">>
    ELSE Join(CsvHeaders, <<",">>) \o <<"\n">>
             \o Join([i \in 1..Len(rs) |-> CsvRow(rs[i])], <<"\n">>)

RECURSIVE ParseLineLoop(_, _, _, _, _)
ParseLineLoop(ln, i, current, inQuotes, result) ==
    IF i > Len(ln) THEN Append(result, Trim(current))
    ELSE IF ln[i] = "\""
         THEN IF inQuotes /\ i + 1 <= Len(ln) /\ ln[i + 1] = "\""
              THEN ParseLineLoop(ln, i + 2, Append(current, "\""), inQuotes, result)
              ELSE ParseLineLoop(ln, i + 1, current, ~inQuotes, result)
    ELSE IF ln[i] = "," /\ ~inQuotes
         THEN ParseLineLoop(ln, i + 1, <<>>, inQuotes, Append(result, Trim(current)))
    ELSE ParseLineLoop(ln, i + 1, Append(current, ln[i]), inQuotes, result)

parseCSVLine(ln) == ParseLineLoop(ln, 1, <<>>, FALSE, <<>>)

\* values[headers.indexOf(name)]: undefined when the header is absent.
ValueOf(values, headers, name) ==
    IF IndexOf(headers, name) = 0 THEN Undefined
    ELSE values[IndexOf(headers, name)]

\* The Reading built for data line i (0-based, as in the loop, and below 10 in
\* the model); the id's Date.now() suffix is left out.
RowReading(values, headers, i) ==
    [id |-> <<"c","s","v","_", DigitChar(i)>>,
     timestamp |-> DateParse(ValueOf(values, headers, S_timestamp)),
     value |-> ValueOf(values, headers, S_value),
     quantity |-> ValueOf(values, headers, S_quantity),
     unit |-> ValueOf(values, headers, S_unit),
     mode |-> OrElse(ValueOf(values, headers, S_mode), S_manual),
     confidence |-> OrElse(ValueOf(values, headers, S_confidence), Null)]

\* The loop without its check of the unit.
RECURSIVE ParseRowsUnitUnchecked(_, _, _, _)
ParseRowsUnitUnchecked(lines, headers, i, acc) ==
    IF i >= Len(lines) THEN acc
    ELSE LET values == parseCSVLine(lines[i + 1])
         IN  IF Len(values) # Len(headers)
             THEN ParseRowsUnitUnchecked(lines, headers, i + 1, acc)
             ELSE LET reading == RowReading(values, headers, i)
                  IN  IF reading.timestamp = NaN
                      THEN ParseRowsUnitUnchecked(lines, headers, i + 1, acc)
                      ELSE IF Falsy(reading.value) \/ Falsy(reading.quantity)
                      THEN ParseRowsUnitUnchecked(lines, headers, i + 1, acc)
                      ELSE ParseRowsUnitUnchecked(lines, headers, i + 1,
                                                  Append(acc, reading))

\* The for loop of parseCSV; lines[i + 1] is the code's lines[i].
RECURSIVE ParseRows(_, _, _, _)
ParseRows(lines, headers, i, acc) ==
    IF i >= Len(lines) THEN acc
    ELSE LET values == parseCSVLine(lines[i + 1])
         IN  IF Len(values) # Len(headers)
             THEN ParseRows(lines, headers, i + 1, acc)
             ELSE LET reading == RowReading(values, headers, i)
                  IN  IF reading.timestamp = NaN
                      THEN ParseRows(lines, headers, i + 1, acc)
                      ELSE IF Falsy(reading.value) \/ Falsy(reading.quantity)
                                  \/ Falsy(reading.unit)
                      THEN ParseRows(lines, headers, i + 1, acc)
                      ELSE ParseRows(lines, headers, i + 1, Append(acc, reading))

LinesUntrimmed(content) == Split(content, "\n")

\* const lines = csvContent.trim().split("\n")
ContentLines(content) == Split(Trim(content), "\n")

\* lines[0].split(",").map(h => h.trim().toLowerCase())
HeadersOf(headerLine) ==
    LET hs == Split(headerLine, ",")
    IN  [i \in 1..Len(hs) |-> ToLowerCase(Trim(hs[i]))]

RequiredHeadersUnitForgotten == <<S_timestamp, S_value, S_quantity>>

RequiredHeaders == <<S_timestamp, S_value, S_quantity, S_unit>>

MissingHeaders(headers) ==
    SelectSeq(RequiredHeaders, LAMBDA h : ~\E i \in 1..Len(headers) : headers[i] = h)

\* What a call of parseCSV ends with: the thrown Error or the returned Reading[].
parseCSV(content) ==
    LET lines == ContentLines(content)
    IN  IF Len(lines) < 2
        THEN [threw |-> TRUE, error |-> "header and one data row", readings |-> <<>>]
        ELSE IF Len(MissingHeaders(HeadersOf(lines[1]))) > 0
        THEN [threw |-> TRUE, error |-> "missing headers", readings |-> <<>>]
        ELSE [threw |-> FALSE, error |-> "",
              readings |-> ParseRows(lines, HeadersOf(lines[1]), 1, <<>>)]

NoResult == [threw |-> FALSE, error |-> "", readings |-> <<>>]


-----------------------------------------------------------------------------
(* The CSV codec's inputs.                                                 *)

BaseReading ==
    [id |-> <<"r">>, timestamp |-> 0, value |-> <<"1", ".", "5">>,
     quantity |-> <<"v","o","l","t","a","g","e">>, unit |-> <<"V">>,
     mode |-> S_manual, confidence |-> Null]

SampleTimestamps == {3723004, 86399999}
SampleValues == {<<"-", "0", ".", "2">>}
\* Quantity and unit strings: plain, with commas, quotes and inner spaces; and
\* empty, padded with white space, or holding a line break.
SampleTexts ==
    {<<"a", ",", "b">>, <<"\"">>, <<"q", "\"", "\"", ",">>, <<"k", " ", "W">>,
     <<>>, <<" ", "x">>, <<"a", "\n", "b">>}
SampleConfidences == {<<"0", ".", "9">>, <<>>}

SampleReadings ==
    {BaseReading}
    \cup {[BaseReading EXCEPT !.timestamp = t] : t \in SampleTimestamps}
    \cup {[BaseReading EXCEPT !.value = v] : v \in SampleValues}
    \cup {[BaseReading EXCEPT !.quantity = q] : q \in SampleTexts}
    \cup {[BaseReading EXCEPT !.unit = u] : u \in SampleTexts}
    \cup {[BaseReading EXCEPT !.mode = S_auto, !.confidence = c] :
              c \in SampleConfidences}

T1 == ToISOString(1000)

\* First lines of imported files.
ImportHeaders ==
    {Join(CsvHeaders, <<",">>),
     Join(RequiredHeaders, <<",">>),
     <<"T","i","m","e","s","t","a","m","p",","," ","V","A","L","U","E"," ",",",
       "q","u","a","n","t","i","t","y",",","U","N","I","T">>,
     Join(<<S_timestamp, S_value, S_quantity>>, <<",">>),
     Join(<<S_unit, S_quantity, S_value, S_timestamp>>, <<",">>),
     <<"\"">> \o S_timestamp \o <<"\"", ",">>
         \o Join(<<S_value, S_quantity, S_unit>>, <<",">>),
     <<>>}

\* Data lines of imported files.
ImportLines ==
    {T1 \o <<",", "1", ",", "q", ",", "V">>,
     T1 \o <<",", "1", ",", "\"", "a", ",", "b", "\"", ",", "V">>,
     T1 \o <<",", "1", ",", "q", ",", "V", ",", "a", "u", "t", "o", ",", "0", ".", "9">>,
     T1 \o <<",", "2", ",", "q", ",", "V", ",", ",">>,
     <<"x", ",", "1", ",", "q", ",", "V">>,
     DatePrefix \o <<"0","0",":","0","0",":","6","0",".","0","0","0","Z">>
         \o <<",", "1", ",", "q", ",", "V">>,
     T1 \o <<",", ",", "q", ",", "V">>,
     T1 \o <<",", "1", ",", "\"", "\"", ",", "V">>,
     T1 \o <<",", "1", ",", "q", ",", " ">>,
     T1 \o <<",", "1", ",", "q">>,
     <<" ">> \o T1 \o <<" ", ",", " ", "3", ",", "q", " ", ",", "V", "\"", "\"", "\"", "\"">>,
     <<"V", ",", "q", ",", "1", ",">> \o T1,
     <<>>}

\* White space around the file's lines.
ImportAffixes == {<<<<>>, <<>>>>, <<<<>>, <<"\n">>>>, <<<<"\n">>, <<>>>>, <<<<>>, <<"\r", "\n">>>>}

ImportFiles ==
    {a[1] \o Join(<<h>> \o rows, <<"\n">>) \o a[2] :
        h \in ImportHeaders, rows \in SeqsUpTo(ImportLines, MaxRows),
        a \in ImportAffixes}

-----------------------------------------------------------------------------
(* Values of the variables an operation does not use.                      *)

\* A JavaScript number that is a fraction: numerator over denominator. The
\* model computes with the exact fractions the doubles of the code round.
Fraction(n, d) == [num |-> n, den |-> d]
Zero == Fraction(0, 1)

\* CameraView: useState("0.00"), the cleanup handle of an effect run that
\* returned no cleanup, and the default of the autoInterval setting.
InitialReading == <<"0", ".", "0", "0">>
NoCleanup == -1
DefaultAutoInterval == 5

\* DataView: the page size.
ITEMS_PER_PAGE == 10

\* The server before its first request.
NoRequest == [op |-> "none", args |-> <<>>]
NoResponse == [status |-> 0, body |-> NullObject]

\* ReplayView: useState<Reading[]>([]).
NoFile == [name |-> "", n |-> 0]

AllOff == [a |-> FALSE, b |-> FALSE, c |-> FALSE, d |-> FALSE, e |-> FALSE,
           f |-> FALSE, g |-> FALSE]

IdleCsv == readings = <<>> /\ csvContent = <<>> /\ csvResult = NoResult
IdleLine == fields = <<>> /\ line = <<>> /\ lineValues = <<>>
IdleFormat == rawValue = <<>> /\ formatted = <<>> /\ reformatted = <<>>
IdleDecoder == segments = AllOff /\ digit = ""
IdleDetector == isReady = FALSE /\ contourRects = <<>> /\ digitRegions = <<>>
IdleExtractor ==
    binaryImage = NullObject /\ digitRect = NullObject /\ segmentStates = AllOff
IdleScorer ==
    scoredSegments = <<>> /\ confidence = Zero
IdlePipeline ==
    raises = "none" /\ detection = NullObject
IdleOcr ==
    /\ ocrReady = FALSE /\ isInitialized = FALSE /\ worker = "null"
    /\ recognition = NullObject /\ ocrResult = NullObject
IdleCamera ==
    /\ captureMode = "manual" /\ cameraActive = FALSE /\ videoReady = FALSE
    /\ autoInterval = 0 /\ intervals = {} /\ retries = <<>>
    /\ cleanupHandle = NoCleanup /\ nextTimer = 1 /\ frames = <<>>
    /\ isProcessing = FALSE /\ currentReading = InitialReading
    /\ mutationPending = FALSE /\ savedAutoInterval = DefaultAutoInterval
    /\ readingConfidence = 0 /\ lastResult = NullObject /\ posted = NullObject
    /\ mounted = TRUE
IdleServer ==
    /\ readingsMap = <<>> /\ settingsMap = <<>> /\ seeded = 0 /\ nextId = 1
    /\ request = NoRequest /\ response = NoResponse
    /\ currentPage = 0 /\ itemsPerPage = ITEMS_PER_PAGE /\ pages = <<>>
IdleReplay ==
    /\ replayReadings = NoFile /\ currentIndex = 0 /\ playbackState = "stopped"
    /\ intervalRef = 0 /\ playbackTimers = {} /\ nextPlaybackTimer = 1
    /\ spoken = <<>>
IdleService ==
    /\ workerId = 0 /\ workers = {} /\ liveWorkers = {} /\ initCalls = {}
    /\ terminateCalls = {} /\ hookMounted = 0 /\ nextHook = 1
IdleHook ==
    /\ stream = 0 /\ isActive = FALSE /\ isLoading = FALSE
    /\ cameraError = "null" /\ streams = {} /\ stoppedStreams = {}
    /\ acquisition = [config |-> 0, lastError |-> "none"]
    /\ starts = 0 /\ hookAlive = TRUE

csvVars == <<readings, csvContent, csvResult>>
lineVars == <<fields, line, lineValues>>
formatVars == <<rawValue, formatted, reformatted>>
decoderVars == <<segments, digit>>
detectorVars == <<isReady, contourRects, digitRegions>>
extractorVars == <<binaryImage, digitRect, segmentStates>>
scorerVars == <<scoredSegments, confidence>>
pipelineVars == <<raises, detection>>
ocrVars == <<ocrReady, isInitialized, worker, recognition, ocrResult>>
cameraVars == <<captureMode, cameraActive, videoReady, autoInterval,
    intervals, retries, cleanupHandle, nextTimer, frames, isProcessing,
    currentReading, mutationPending, savedAutoInterval, readingConfidence,
    lastResult, posted, mounted>>
serverVars == <<readingsMap, settingsMap, seeded, nextId, request, response,
    currentPage, itemsPerPage, pages>>
replayVars == <<replayReadings, currentIndex, playbackState, intervalRef,
    playbackTimers, nextPlaybackTimer, spoken>>
serviceVars == <<workerId, workers, liveWorkers, initCalls, terminateCalls,
    hookMounted, nextHook>>
hookVars == <<stream, isActive, isLoading, cameraError, streams,
    stoppedStreams, acquisition, starts, hookAlive>>

\* For each component, the variables of the other components and their idle
\* values.
outsideCsv == <<lineVars, formatVars, decoderVars, detectorVars,
    extractorVars, scorerVars, pipelineVars, ocrVars, cameraVars, serverVars,
    replayVars, serviceVars, hookVars>>
outsideLine == <<csvVars, formatVars, decoderVars, detectorVars,
    extractorVars, scorerVars, pipelineVars, ocrVars, cameraVars, serverVars,
    replayVars, serviceVars, hookVars>>
outsideFormat == <<csvVars, lineVars, decoderVars, detectorVars,
    extractorVars, scorerVars, pipelineVars, ocrVars, cameraVars, serverVars,
    replayVars, serviceVars, hookVars>>
outsideDecoder == <<csvVars, lineVars, formatVars, detectorVars,
    extractorVars, scorerVars, pipelineVars, ocrVars, cameraVars, serverVars,
    replayVars, serviceVars, hookVars>>
outsideDetector == <<csvVars, lineVars, formatVars, decoderVars,
    extractorVars, scorerVars, pipelineVars, ocrVars, cameraVars, serverVars,
    replayVars, serviceVars, hookVars>>

IdleOutsideCsv ==
    IdleLine /\ IdleFormat /\ IdleDecoder /\ IdleDetector /\ IdleExtractor
    /\ IdleScorer /\ IdlePipeline /\ IdleOcr /\ IdleCamera /\ IdleServer
    /\ IdleReplay /\ IdleService /\ IdleHook
IdleOutsideLine ==
    IdleCsv /\ IdleFormat /\ IdleDecoder /\ IdleDetector /\ IdleExtractor
    /\ IdleScorer /\ IdlePipeline /\ IdleOcr /\ IdleCamera /\ IdleServer
    /\ IdleReplay /\ IdleService /\ IdleHook
IdleOutsideFormat ==
    IdleCsv /\ IdleLine /\ IdleDecoder /\ IdleDetector /\ IdleExtractor
    /\ IdleScorer /\ IdlePipeline /\ IdleOcr /\ IdleCamera /\ IdleServer
    /\ IdleReplay /\ IdleService /\ IdleHook
IdleOutsideDecoder ==
    IdleCsv /\ IdleLine /\ IdleFormat /\ IdleDetector /\ IdleExtractor
    /\ IdleScorer /\ IdlePipeline /\ IdleOcr /\ IdleCamera /\ IdleServer
    /\ IdleReplay /\ IdleService /\ IdleHook
IdleOutsideDetector ==
    IdleCsv /\ IdleLine /\ IdleFormat /\ IdleDecoder /\ IdleExtractor
    /\ IdleScorer /\ IdlePipeline /\ IdleOcr /\ IdleCamera /\ IdleServer
    /\ IdleReplay /\ IdleService /\ IdleHook

-----------------------------------------------------------------------------
(* CSV export and import.                                                  *)

\* Either the data view holds readings to export, or the user picks a file.
InitCsv ==
    /\ \/ /\ pc = "export"
          /\ readings \in SeqsUpTo(SampleReadings, MaxReadings)
          /\ csvContent = <<>>
       \/ /\ pc = "file"
          /\ readings = <<>>
          /\ csvContent \in ImportFiles
    /\ csvResult = NoResult
    /\ IdleOutsideCsv

\* downloadCSV: the file's content is generateCSV(readings).
DownloadCSV ==
    /\ pc = "export"
    /\ csvContent' = generateCSV(readings)
    /\ pc' = "file"
    /\ UNCHANGED <<readings, csvResult, outsideCsv>>

\* readCSVFile: the promise settles with parseCSV's result or its error.
ReadCSVFile ==
    /\ pc = "file"
    /\ csvResult' = parseCSV(csvContent)
    /\ pc' = "parsed"
    /\ UNCHANGED <<readings, csvContent, outsideCsv>>

NextCsv == DownloadCSV \/ ReadCSVFile

SpecCsv == InitCsv /\ [][NextCsv]_vars


-----------------------------------------------------------------------------
(* Claims about the CSV codec.                                             *)

\* A text field the codec carries on one line: not empty, no line break, no
\* white space at either end.
PlainText(s) == s # <<>> /\ ~Includes(s, "\n") /\ Trim(s) = s

WellFormedReading(r) ==
    /\ r.timestamp \in 0..86399999
    /\ r.value # <<>> /\ \A i \in 1..Len(r.value) : r.value[i] \in DecimalChars
    /\ PlainText(r.quantity) /\ PlainText(r.unit)
    /\ r.mode \in {S_manual, S_auto}

Exported ==
    /\ pc = "parsed"
    /\ csvContent = generateCSV(readings)
    /\ \A i \in 1..Len(readings) : WellFormedReading(readings[i])

RoundTrips ==
    /\ ~csvResult.threw
    /\ Len(csvResult.readings) = Len(readings)
    /\ \A i \in 1..Len(readings) :
          /\ csvResult.readings[i].value = readings[i].value
          /\ csvResult.readings[i].quantity = readings[i].quantity
          /\ csvResult.readings[i].unit = readings[i].unit
          /\ csvResult.readings[i].mode = readings[i].mode
          /\ csvResult.readings[i].timestamp = readings[i].timestamp

FirstLineOf(s) == Split(s, "\n")[1]
AfterFirstLine(s) == SubSeq(s, Len(FirstLineOf(s)) + 1, Len(s))

\* A line names header h: one of its comma-separated cells is h, ignoring case
\* and surrounding white space.
NamesHeader(ln, h) ==
    \E i \in 1..Len(Split(ln, ",")) : ToLowerCase(Trim(Split(ln, ",")[i])) = h

NamesRequiredHeaders(ln) ==
    \A h \in {S_timestamp, S_value, S_quantity, S_unit} : NamesHeader(ln, h)

\* Header-only content: a header line naming the required headers and nothing
\* after it but white space.
HeaderOnly(content) ==
    /\ NamesRequiredHeaders(FirstLineOf(content))
    /\ \A i \in 1..Len(AfterFirstLine(content)) :
           AfterFirstLine(content)[i] \in WhiteSpace

\* C2, as stated: decoding header-only content, in particular generateCSV([]),
\* yields an empty reading list and raises no error.
C2_HeaderOnlyDecodesEmpty ==
    (pc = "parsed" /\ HeaderOnly(csvContent)) =>
        (~csvResult.threw /\ csvResult.readings = <<>>)

\* C2, amended: decoding header-only content, in particular generateCSV([]), is
\* rejected with the error "CSV file must contain at least a header and one data
\* row"; no reading list is returned.
C2_HeaderOnlyRejected ==
    (pc = "parsed" /\ HeaderOnly(csvContent)) =>
        /\ csvResult.threw
        /\ csvResult.error = "header and one data row"
        /\ csvResult.readings = <<>>

\* C2 witness: the export of an empty reading list was handed to parseCSV.
C2_Witness ==
    /\ pc = "parsed"
    /\ readings = <<>>
    /\ csvContent = generateCSV(<<>>)
    /\ HeaderOnly(csvContent)
    /\ csvResult.threw

\* The lines of a text file: the pieces between line breaks, a line break at the
\* very end closing the last line rather than opening an empty one.
TextLines(s) ==
    IF s # <<>> /\ s[Len(s)] = "\n"
    THEN Split(SubSeq(s, 1, Len(s) - 1), "\n")
    ELSE Split(s, "\n")

\* C3, as stated: parseCSV fails, returning no readings, exactly when the content
\* has fewer than 2 lines or its first line lacks a required header.
C3_FailsIffContentMalformed ==
    pc = "parsed" =>
        /\ csvResult.threw <=>
              \/ Len(TextLines(csvContent)) < 2
              \/ ~NamesRequiredHeaders(TextLines(csvContent)[1])
        /\ csvResult.threw => csvResult.readings = <<>>

\* C3, amended: parseCSV fails, returning no readings, exactly when the content
\* with its leading and trailing white space removed has fewer than 2 lines or
\* its first line, compared case-insensitively, lacks any of the headers
\* timestamp, value, quantity, unit; in every other case it does not fail.
C3_FailsIffTrimmedMalformed ==
    pc = "parsed" =>
        /\ csvResult.threw <=>
              \/ ~Includes(Trim(csvContent), "\n")
              \/ ~NamesRequiredHeaders(FirstLineOf(Trim(csvContent)))
        /\ csvResult.threw => csvResult.readings = <<>>

\* C3 witness: a file of two lines whose header lacks unit was rejected.
C3_Witness ==
    /\ pc = "parsed"
    /\ Includes(Trim(csvContent), "\n")
    /\ ~NamesHeader(FirstLineOf(Trim(csvContent)), S_unit)
    /\ NamesHeader(FirstLineOf(Trim(csvContent)), S_quantity)
    /\ csvResult.threw
    /\ csvResult.error = "missing headers"

\* The header cells and the data lines of a file parseCSV accepts.
HeaderCells(content) ==
    LET cells == Split(FirstLineOf(Trim(content)), ",")
    IN  [i \in 1..Len(cells) |-> ToLowerCase(Trim(cells[i]))]

DataLines(content) == Tail(Split(Trim(content), "\n"))

\* The field of a data line under header h (the first header cell so named).
FieldUnder(cells, ln, h) ==
    parseCSVLine(ln)[CHOOSE i \in 1..Len(cells) :
                        cells[i] = h /\ \A j \in 1..(i - 1) : cells[j] # h]

\* A data line that makes a row: as many fields as headers, a timestamp that is
\* a valid instant, and value, quantity and unit not empty.
GoodRow(cells, ln) ==
    /\ Len(parseCSVLine(ln)) = Len(cells)
    /\ DateParse(FieldUnder(cells, ln, S_timestamp)) # NaN
    /\ FieldUnder(cells, ln, S_value) # <<>>
    /\ FieldUnder(cells, ln, S_quantity) # <<>>
    /\ FieldUnder(cells, ln, S_unit) # <<>>

GoodRows(content) ==
    LET cells == HeaderCells(content)
    IN  SelectSeq(DataLines(content), LAMBDA ln : GoodRow(cells, ln))

ValidFile(content) ==
    /\ Includes(Trim(content), "\n")
    /\ NamesRequiredHeaders(FirstLineOf(Trim(content)))

\* C4: for content with a valid header and at least one data line, parseCSV does
\* not fail, and returns, in input order, exactly the rows whose field count is
\* the header count, whose timestamp is a valid instant and whose value,
\* quantity and unit are non-empty; every other row is skipped.
C4_ReturnsExactlyGoodRows ==
    (pc = "parsed" /\ ValidFile(csvContent)) =>
        LET cells == HeaderCells(csvContent)
            good == GoodRows(csvContent)
        IN  /\ ~csvResult.threw
            /\ Len(csvResult.readings) = Len(good)
            /\ \A k \in 1..Len(csvResult.readings) :
                  LET r == csvResult.readings[k]
                  IN  /\ r.timestamp = DateParse(FieldUnder(cells, good[k], S_timestamp))
                      /\ r.value = FieldUnder(cells, good[k], S_value)
                      /\ r.quantity = FieldUnder(cells, good[k], S_quantity)
                      /\ r.unit = FieldUnder(cells, good[k], S_unit)

\* C4 witness: a valid file of two distinct data lines, one a good row and one
\* not, was parsed to one reading.
C4_Witness ==
    /\ pc = "parsed"
    /\ ValidFile(csvContent)
    /\ Len(DataLines(csvContent)) = 2
    /\ ~GoodRow(HeaderCells(csvContent), DataLines(csvContent)[1])
    /\ GoodRow(HeaderCells(csvContent), DataLines(csvContent)[2])
    /\ Len(csvResult.readings) = 1

-----------------------------------------------------------------------------
(* One CSV line: escapeCsvField on each field, then parseCSVLine.          *)

FieldChars == {"a", ",", "\"", " "}

\* The field lists: a string over the field characters and a mark, cut at the
\* marks.
FieldLists ==
    {fs \in {Split(s, "|") : s \in SeqsUpTo(FieldChars \cup {"|"}, MaxLineChars)} :
        Len(fs) <= MaxFields}

InitLine ==
    /\ pc = "fields"
    /\ fields \in FieldLists
    /\ line = <<>>
    /\ lineValues = <<>>
    /\ IdleOutsideLine

\* The escaped fields joined by commas, as generateCSV joins a row.
EscapeFields ==
    /\ pc = "fields"
    /\ line' = Join([i \in 1..Len(fields) |-> escapeCsvField(fields[i])], <<",">>)
    /\ pc' = "line"
    /\ UNCHANGED <<fields, lineValues, outsideLine>>

ParseLine ==
    /\ pc = "line"
    /\ lineValues' = parseCSVLine(line)
    /\ pc' = "values"
    /\ UNCHANGED <<fields, line, outsideLine>>

NextLine == EscapeFields \/ ParseLine

SpecLine == InitLine /\ [][NextLine]_vars

\* C5: every field without line break and without leading or trailing white
\* space, commas and double quotes allowed, comes back from
\* parseCSVLine(escapeCsvField(f)) as the one field f, and a line of k escaped
\* fields joined by commas parses back to those k fields.
C5_FieldQuotingRoundTrips ==
    (/\ pc = "values"
     /\ \A i \in 1..Len(fields) :
           ~Includes(fields[i], "\n") /\ Trim(fields[i]) = fields[i])
        => lineValues = fields

\* C5 witness: two fields, one with a comma and one with a double quote, were
\* escaped, joined and parsed back.
C5_Witness ==
    /\ pc = "values"
    /\ Len(fields) = 2
    /\ Includes(fields[1], ",") /\ Includes(fields[2], "\"")
    /\ Trim(fields[1]) = fields[1] /\ Trim(fields[2]) = fields[2]
    /\ Len(line) > Len(fields[1]) + Len(fields[2]) + 1
    /\ lineValues = fields


-----------------------------------------------------------------------------
(* OpenCVService.formatReadingValue (opencv-service.ts).                   *)

DropLast(s) == SubSeq(s, 1, Len(s) - 1)

\* rawValue.replace(/[^0-9.\-]/g, '')
Cleaned(raw) == SelectSeq(raw, LAMBDA c : c \in DecimalChars)

\* parts[0] + '.' + parts.slice(1).join('') when there are more than 2 parts
OneDecimalPoint(cleaned) ==
    LET parts == Split(cleaned, ".")
    IN  IF Len(parts) > 2
        THEN parts[1] \o <<".">> \o Join(Tail(parts), <<>>)
        ELSE cleaned

\* cleaned.replace(/^\./, '0.')
LeadingZero(cleaned) ==
    IF cleaned # <<>> /\ Head(cleaned) = "." THEN <<"0">> \o cleaned ELSE cleaned

\* cleaned.replace(/\.$/, '')
NoTrailingPoint(cleaned) ==
    IF cleaned # <<>> /\ cleaned[Len(cleaned)] = "." THEN DropLast(cleaned)
    ELSE cleaned

\* The trailing point dropped before the decimal points are merged.
FormatTrailingPointFirst(raw) ==
    IF raw = <<>> THEN <<"0">>
    ELSE LET cleaned == LeadingZero(OneDecimalPoint(NoTrailingPoint(Cleaned(raw))))
         IN  IF cleaned = <<>> \/ cleaned = <<"-">> \/ cleaned = <<".">>
             THEN <<"0">>
             ELSE cleaned

\* The lone '-' not turned into "0".
FormatKeepsLoneMinus(raw) ==
    IF raw = <<>> THEN <<"0">>
    ELSE LET cleaned == NoTrailingPoint(LeadingZero(OneDecimalPoint(Cleaned(raw))))
         IN  IF cleaned = <<>> \/ cleaned = <<".">> THEN <<"0">> ELSE cleaned

\* The decimal points after the first not removed.
FormatKeepsAllPoints(raw) ==
    IF raw = <<>> THEN <<"0">>
    ELSE LET cleaned == NoTrailingPoint(LeadingZero(Cleaned(raw)))
         IN  IF cleaned = <<>> \/ cleaned = <<"-">> \/ cleaned = <<".">>
             THEN <<"0">>
             ELSE cleaned

formatReadingValue(raw) ==
    IF raw = <<>> THEN <<"0">>
    ELSE LET cleaned == NoTrailingPoint(LeadingZero(OneDecimalPoint(Cleaned(raw))))
         IN  IF cleaned = <<>> \/ cleaned = <<"-">> \/ cleaned = <<".">>
             THEN <<"0">>
             ELSE cleaned

\* Raw values: every string over two digits, '.', '-' and the decoder's '?', and
\* the examples of the normalizer's contract.
RawChars == {"0", "5", ".", "-", "?"}
RawExamples == {<<"1", ".", "2", ".", "3">>, <<" ", "1", "2", " ">>}
RawValues == SeqsUpTo(RawChars, MaxRawLen) \cup RawExamples

InitFormat ==
    /\ pc = "raw"
    /\ rawValue \in RawValues
    /\ formatted = <<>>
    /\ reformatted = <<>>
    /\ IdleOutsideFormat

Format ==
    /\ pc = "raw"
    /\ formatted' = formatReadingValue(rawValue)
    /\ pc' = "formatted"
    /\ UNCHANGED <<rawValue, reformatted, outsideFormat>>

\* formatReadingValue applied to its own result.
FormatAgain ==
    /\ pc = "formatted"
    /\ reformatted' = formatReadingValue(formatted)
    /\ pc' = "reformatted"
    /\ UNCHANGED <<rawValue, formatted, outsideFormat>>

NextFormat == Format \/ FormatAgain

SpecFormat == InitFormat /\ [][NextFormat]_vars

\* C6: the normalizer is idempotent: formatting a formatted value changes
\* nothing, for every input string.
C6_FormatIdempotent == pc = "reformatted" => reformatted = formatted

\* C6 witness: an input the normalizer changed (two decimal points) was
\* formatted twice.
C6_Witness ==
    /\ pc = "reformatted"
    /\ rawValue = <<"5", ".", ".", "0", ".">>
    /\ formatted = <<"5", ".", "0">>
    /\ reformatted = formatted

\* C7: the normalizer maps "", "." and "-" to "0", "1.2.3" to "1.23" and ".5"
\* to "0.5".
C7_FormatExamples ==
    pc # "raw" =>
        /\ rawValue = <<>> => formatted = <<"0">>
        /\ rawValue = <<".">> => formatted = <<"0">>
        /\ rawValue = <<"-">> => formatted = <<"0">>
        /\ rawValue = <<"1", ".", "2", ".", "3">> => formatted = <<"1", ".", "2", "3">>
        /\ rawValue = <<".", "5">> => formatted = <<"0", ".", "5">>

\* C7 witness: "1.2.3" was formatted.
C7_Witness ==
    pc = "formatted" /\ rawValue = <<"1", ".", "2", ".", "3">> /\ formatted # <<>>

DigitsAndMinus(s) == SelectSeq(s, LAMBDA c : IsDigit(c) \/ c = "-")
PointCount(s) == Cardinality({i \in 1..Len(s) : s[i] = "."})

\* The output's form: not empty, over digits, '.' and '-', at most one '.', and
\* none at either end.
CanonicalForm(s) ==
    /\ s # <<>>
    /\ \A i \in 1..Len(s) : s[i] \in DecimalChars
    /\ PointCount(s) <= 1
    /\ s[1] # "." /\ s[Len(s)] # "."

\* The input's first character among digits, '.' and '-' is a '.'.
LeadingPoint(raw) ==
    \E i \in 1..Len(raw) :
        raw[i] = "." /\ \A j \in 1..(i - 1) : raw[j] \notin DecimalChars

\* C8, as stated: for every input the output is in canonical form and its digits
\* and '-' are exactly the input's, in order, but for the '0' placed before a
\* leading '.' or returned for an empty result.
C8_OutputKeepsDigitsAndMinus ==
    pc # "raw" =>
        /\ CanonicalForm(formatted)
        /\ \/ DigitsAndMinus(formatted) = DigitsAndMinus(rawValue)
           \/ LeadingPoint(rawValue)
                /\ DigitsAndMinus(formatted) = <<"0">> \o DigitsAndMinus(rawValue)
           \/ DigitsAndMinus(rawValue) = <<>> /\ formatted = <<"0">>

\* C8, amended: for every input the output is a non-empty string over digits,
\* '.' and '-' with at most one '.' and none at either end, whose digits and '-'
\* are exactly the input's in order, but for the '0' placed before a leading '.'
\* or returned for an empty result, and except that an input whose digits and '-'
\* are one single '-' with no '.' before it yields "0", its '-' dropped.
C8_OutputKeepsDigitsAndMinusButLoneMinus ==
    pc # "raw" =>
        /\ CanonicalForm(formatted)
        /\ \/ DigitsAndMinus(formatted) = DigitsAndMinus(rawValue)
           \/ LeadingPoint(rawValue)
                /\ DigitsAndMinus(formatted) = <<"0">> \o DigitsAndMinus(rawValue)
           \/ DigitsAndMinus(rawValue) = <<>> /\ formatted = <<"0">>
           \/ DigitsAndMinus(rawValue) = <<"-">> /\ ~LeadingPoint(rawValue)
                /\ formatted = <<"0">>

\* C8 witness: an input with three decimal points, the first leading, and a
\* character to strip was formatted.
C8_Witness ==
    /\ pc = "formatted"
    /\ rawValue = <<".", "5", ".", "?", ".">>
    /\ formatted = <<"0", ".", "5">>


-----------------------------------------------------------------------------
(* segmentsToDigit (use-opencv hook).                                      *)

SegmentStates == [{"a", "b", "c", "d", "e", "f", "g"} -> BOOLEAN]

Bit(on) == IF on THEN "1" ELSE "0"

\* The pattern with the middle segment put first.
PatternMiddleFirst(seg) ==
    <<Bit(seg.g), Bit(seg.a), Bit(seg.b), Bit(seg.c), Bit(seg.d), Bit(seg.e),
      Bit(seg.f)>>

\* [segments.a ? '1' : '0', ..., segments.g ? '1' : '0'].join('')
Pattern(seg) ==
    <<Bit(seg.a), Bit(seg.b), Bit(seg.c), Bit(seg.d), Bit(seg.e), Bit(seg.f),
      Bit(seg.g)>>

\* digitPatterns, each entry <<key, value>>.
digitPatterns ==
    {<< <<"1","1","1","1","1","1","0">>, "0" >>,
     << <<"0","1","1","0","0","0","0">>, "1" >>,
     << <<"1","1","0","1","1","0","1">>, "2" >>,
     << <<"1","1","1","1","0","0","1">>, "3" >>,
     << <<"0","1","1","0","0","1","1">>, "4" >>,
     << <<"1","0","1","1","0","1","1">>, "5" >>,
     << <<"1","0","1","1","1","1","1">>, "6" >>,
     << <<"1","1","1","0","0","0","0">>, "7" >>,
     << <<"1","1","1","1","1","1","1">>, "8" >>,
     << <<"1","1","1","1","0","1","1">>, "9" >>,
     << <<"1","1","1","0","1","1","1">>, "A" >>,
     << <<"0","0","1","1","1","1","1">>, "b" >>,
     << <<"1","0","0","1","1","1","0">>, "C" >>,
     << <<"0","1","1","1","1","0","1">>, "d" >>,
     << <<"1","0","0","1","1","1","1">>, "E" >>,
     << <<"1","0","0","0","1","1","1">>, "F" >>,
     << <<"0","0","0","0","0","0","0">>, " " >>}

\* digitPatterns[pattern] || '?': a missing key reads undefined, and no value of
\* the table is the empty string.
segmentsToDigit(seg) ==
    IF \E e \in digitPatterns : e[1] = Pattern(seg) /\ e[2] # ""
    THEN (CHOOSE e \in digitPatterns : e[1] = Pattern(seg))[2]
    ELSE "?"

InitDecoder ==
    /\ pc = "segments"
    /\ segments \in SegmentStates
    /\ digit = ""
    /\ IdleOutsideDecoder

Decode ==
    /\ pc = "segments"
    /\ digit' = segmentsToDigit(segments)
    /\ pc' = "digit"
    /\ UNCHANGED <<segments, outsideDecoder>>

NextDecoder == Decode

SpecDecoder == InitDecoder /\ [][NextDecoder]_vars

\* The segments that are lit.
Lit(seg) == {n \in DOMAIN seg : seg[n]}

\* The 7-segment shapes of the 17 known characters, by their lit segments.
KnownShapes ==
    {<<{}, " ">>,
     <<{"a","b","c","d","e","f"}, "0">>,
     <<{"b","c"}, "1">>,
     <<{"a","b","d","e","g"}, "2">>,
     <<{"a","b","c","d","g"}, "3">>,
     <<{"b","c","f","g"}, "4">>,
     <<{"a","c","d","f","g"}, "5">>,
     <<{"a","c","d","e","f","g"}, "6">>,
     <<{"a","b","c"}, "7">>,
     <<{"a","b","c","d","e","f","g"}, "8">>,
     <<{"a","b","c","d","f","g"}, "9">>,
     <<{"a","b","c","e","f","g"}, "A">>,
     <<{"c","d","e","f","g"}, "b">>,
     <<{"a","d","e","f"}, "C">>,
     <<{"b","c","d","e","g"}, "d">>,
     <<{"a","d","e","f","g"}, "E">>,
     <<{"a","e","f","g"}, "F">>}

\* C9: the decoder is total over the 128 segment patterns and returns exactly
\* one character: the table's character for each of the 17 known patterns
\* (blank for all off, '8' for all on, '0' for a..f on and g off, ...) and '?'
\* for each of the 111 others.
C9_DecoderTotalOverPatterns ==
    pc = "digit" =>
        /\ \A k \in KnownShapes : Lit(segments) = k[1] => digit = k[2]
        /\ (\A k \in KnownShapes : Lit(segments) # k[1]) => digit = "?"
        /\ Len(digit) = 1
        /\ Cardinality(SegmentStates) = 128
        /\ Cardinality({k[1] : k \in KnownShapes}) = 17
        /\ Cardinality({seg \in SegmentStates : segmentsToDigit(seg) = "?"}) = 111

\* C9 witness: the pattern with a..f on and g off was decoded to '0'.
C9_Witness ==
    /\ pc = "digit"
    /\ Lit(segments) = {"a","b","c","d","e","f"}
    /\ digit = "0"


-----------------------------------------------------------------------------
(* detectDisplay (use-opencv hook).                                        *)

\* area > 500 && area < 50000
MinArea == 500
MaxArea == 50000

\* The filter with the smallest area let in.
IsDigitRegionAreaInclusive(rect) ==
    /\ rect.width * rect.height >= MinArea
    /\ rect.width * rect.height < MaxArea
    /\ 5 * rect.height > 6 * rect.width
    /\ rect.height < 3 * rect.width

\* The filter without the lower limit of the area.
IsDigitRegionAnyArea(rect) ==
    /\ rect.width * rect.height < MaxArea
    /\ 5 * rect.height > 6 * rect.width
    /\ rect.height < 3 * rect.width

\* area > 500 && area < 50000 && aspectRatio > 1.2 && aspectRatio < 3.0, with
\* aspectRatio = rect.height / rect.width. The quotient of two integers below
\* 2^53 is rounded to the nearest double, as the literals 1.2 and 3.0 are, so
\* it compares with them as height/width compares with 6/5 and 3.
IsDigitRegion(rect) ==
    /\ rect.width * rect.height > MinArea
    /\ rect.width * rect.height < MaxArea
    /\ 5 * rect.height > 6 * rect.width
    /\ rect.height < 3 * rect.width

\* Array.prototype.sort((a, b) => a.x - b.x): stable, ascending by x.
RECURSIVE InsertByX(_, _)
InsertByX(sorted, rect) ==
    IF sorted = <<>> THEN <<rect>>
    ELSE IF sorted[Len(sorted)].x <= rect.x THEN Append(sorted, rect)
    ELSE Append(InsertByX(DropLast(sorted), rect), sorted[Len(sorted)])

RECURSIVE SortByX(_)
SortByX(rects) ==
    IF rects = <<>> THEN <<>>
    ELSE InsertByX(SortByX(DropLast(rects)), rects[Len(rects)])

\* detectDisplay for an image whose contours have the bounding rectangles
\* rects; [] when the vision library is not loaded (and from the catch, when the
\* library throws before any rectangle is had).
detectDisplay(ready, rects) ==
    IF ~ready THEN <<>>
    ELSE SortByX(SelectSeq(rects, IsDigitRegion))

\* Bounding rectangles: widths and heights on and beside the limits of area and
\* aspect ratio.
RectShapes ==
    {<<20, 25>>, <<20, 26>>, <<200, 250>>, <<199, 251>>, <<50, 60>>, <<50, 61>>,
     <<20, 60>>, <<20, 59>>, <<8, 12>>, <<300, 400>>, <<40, 40>>, <<10, 100>>}
RectXs == {0, 30, 31}
BoundingRects ==
    {[x |-> x, y |-> 0, width |-> wh[1], height |-> wh[2]] :
        x \in RectXs, wh \in RectShapes}

InitDetector ==
    /\ pc = "image"
    /\ isReady \in BOOLEAN
    /\ contourRects \in SeqsUpTo(BoundingRects, MaxContours)
    /\ isReady = FALSE => contourRects = <<>>
    /\ digitRegions = <<>>
    /\ IdleOutsideDetector

DetectDisplay ==
    /\ pc = "image"
    /\ digitRegions' = detectDisplay(isReady, contourRects)
    /\ pc' = "regions"
    /\ UNCHANGED <<isReady, contourRects, outsideDetector>>

NextDetector == DetectDisplay

SpecDetector == InitDetector /\ [][NextDetector]_vars

\* How often a rectangle occurs in a sequence.
Occurrences(rects, r) == Cardinality({i \in 1..Len(rects) : rects[i] = r})

\* C10: the detector returns exactly the bounding rectangles whose area is
\* strictly between 500 and 50000 and whose height/width ratio is strictly
\* between 1.2 and 3.0, the boundary values rejected, sorted by ascending x; it
\* returns an empty sequence when no outline qualifies.
C10_DetectorFiltersAndSorts ==
    pc = "regions" =>
        /\ \A r \in BoundingRects :
              Occurrences(digitRegions, r) =
                 IF /\ 500 < r.width * r.height /\ r.width * r.height < 50000
                    /\ 12 * r.width < 10 * r.height /\ 10 * r.height < 30 * r.width
                 THEN Occurrences(contourRects, r)
                 ELSE 0
        /\ \A i \in 1..Len(digitRegions) : digitRegions[i] \in BoundingRects
        /\ \A i \in 1..(Len(digitRegions) - 1) :
              digitRegions[i].x <= digitRegions[i + 1].x

\* C10 witness: of two outlines the left one had area exactly 500 and was
\* rejected, the right one qualified and was returned.
C10_Witness ==
    /\ pc = "regions"
    /\ isReady
    /\ Len(contourRects) = 2
    /\ contourRects[1].width * contourRects[1].height = 500
    /\ contourRects[1].x < contourRects[2].x
    /\ digitRegions = <<contourRects[2]>>

-----------------------------------------------------------------------------
(* analyzeSegments (use-opencv hook).                                      *)

MaxBlobs == 2      \* most white rectangles in one thresholded image

\* The normalized position of each segment in the digit cell, in hundredths.
segmentPositions ==
    [a |-> [x |-> 20, y |-> 0,  w |-> 60, h |-> 15],
     b |-> [x |-> 70, y |-> 0,  w |-> 15, h |-> 50],
     c |-> [x |-> 70, y |-> 50, w |-> 15, h |-> 50],
     d |-> [x |-> 20, y |-> 85, w |-> 60, h |-> 15],
     e |-> [x |-> 0,  y |-> 50, w |-> 15, h |-> 50],
     f |-> [x |-> 0,  y |-> 0,  w |-> 15, h |-> 50],
     g |-> [x |-> 20, y |-> 42, w |-> 60, h |-> 15]]

SegmentNames == DOMAIN segmentPositions

\* The extents below 330 at which the double product 0.7 * n falls short of the
\* integer 7n/10 (0.7 * 90 is 62.99999999999999).
ShortOfSevenTenths == {90, 170, 180}

\* Math.floor(pos * n) for a position of the table, given in hundredths, and an
\* extent 0 <= n < 330: the double product has the floor of the exact product
\* but at the extents above (no other position of the table has such extents).
FloorOfProduct(hundredths, n) ==
    IF hundredths = 70 /\ n \in ShortOfSevenTenths
    THEN (hundredths * n) \div 100 - 1
    ELSE (hundredths * n) \div 100

\* The segment's sub-rectangle in the coordinates of the digit region.
segmentRect(pos, rect) ==
    [x |-> FloorOfProduct(pos.x, rect.width),
     y |-> FloorOfProduct(pos.y, rect.height),
     width |-> FloorOfProduct(pos.w, rect.width),
     height |-> FloorOfProduct(pos.h, rect.height)]

\* The pixels two rectangles share (width 0 when they share none).
Intersection(r, q) ==
    LET x1 == IF r.x > q.x THEN r.x ELSE q.x
        y1 == IF r.y > q.y THEN r.y ELSE q.y
        x2 == IF r.x + r.width < q.x + q.width
              THEN r.x + r.width ELSE q.x + q.width
        y2 == IF r.y + r.height < q.y + q.height
              THEN r.y + r.height ELSE q.y + q.height
    IN  IF x2 > x1 /\ y2 > y1
        THEN [x |-> x1, y |-> y1, width |-> x2 - x1, height |-> y2 - y1]
        ELSE [x |-> x1, y |-> y1, width |-> 0, height |-> 0]

\* The pixels that roi and all the rectangles of T share.
RECURSIVE CommonRect(_, _)
CommonRect(T, roi) ==
    IF T = {} THEN roi
    ELSE LET q == CHOOSE q \in T : TRUE
         IN  Intersection(CommonRect(T \ {q}, roi), q)

\* The pixels of roi counted for each set of rectangles in Ts: added for a set
\* of odd size, taken off for one of even size.
RECURSIVE SignedCount(_, _)
SignedCount(Ts, roi) ==
    IF Ts = {} THEN 0
    ELSE LET T == CHOOSE T \in Ts : TRUE
             r == CommonRect(T, roi)
             count == IF Cardinality(T) % 2 = 1 THEN r.width * r.height
                      ELSE 0 - r.width * r.height
         IN  count + SignedCount(Ts \ {T}, roi)

\* cv.countNonZero of the image's region roi (in image coordinates): the white
\* pixels of the region, each counted once however many white rectangles cover
\* it.
countNonZero(img, roi) ==
    LET covering == {q \in img.white : Intersection(roi, q).width > 0}
    IN  SignedCount(SUBSET covering \ {{}}, roi)

\* The test with exactly 30% let in.
IsOnAtThreshold(whitePixels, totalPixels) == 10 * whitePixels >= 3 * totalPixels

\* whiteRatio > 0.3 with whiteRatio = whitePixels / totalPixels: the quotient of
\* two integers below 2^53 is rounded to the nearest double, as the literal 0.3
\* is, so it compares with it as whitePixels/totalPixels compares with 3/10.
IsOn(whitePixels, totalPixels) == 10 * whitePixels > 3 * totalPixels

\* The state of one segment of a valid digit region.
segmentState(img, rect, pos) ==
    LET sr == segmentRect(pos, rect)
    IN  IF /\ sr.x >= 0 /\ sr.y >= 0 /\ sr.width > 0 /\ sr.height > 0
           /\ sr.x + sr.width <= rect.width
           /\ sr.y + sr.height <= rect.height
        THEN IsOn(countNonZero(img, [x |-> rect.x + sr.x, y |-> rect.y + sr.y,
                                     width |-> sr.width, height |-> sr.height]),
                  sr.width * sr.height)
        ELSE FALSE

analyzeSegments(ready, img, rect) ==
    IF ~ready \/ img = NullObject \/ rect = NullObject THEN AllOff
    ELSE IF \/ rect.x < 0 \/ rect.y < 0
            \/ rect.width <= 0 \/ rect.height <= 0
            \/ rect.x + rect.width > img.cols
            \/ rect.y + rect.height > img.rows
         THEN AllOff
         ELSE [n \in SegmentNames |-> segmentState(img, rect, segmentPositions[n])]

\* Thresholded images: 100 x 130 pixels, black but for at most MaxBlobs white
\* rectangles; the rectangles fill segments of the sample regions to 30%
\* exactly, to just above it, and wholly.
Rect(x, y, w, h) == [x |-> x, y |-> y, width |-> w, height |-> h]
SampleBlobs ==
    {Rect(14, 0, 3, 6), Rect(14, 0, 3, 7), Rect(14, 6, 3, 1), Rect(4, 0, 12, 6),
     Rect(24, 5, 3, 7), Rect(63, 0, 13, 18), Rect(62, 0, 1, 60),
     Rect(80, 90, 20, 40), Rect(0, 0, 100, 130)}
BinaryImages ==
    {[cols |-> 100, rows |-> 130, white |-> bs] :
        bs \in {bs \in SUBSET SampleBlobs : Cardinality(bs) <= MaxBlobs}}

\* Digit regions: inside the image, on its edge, beyond it, without extent, too
\* narrow or too flat for some segments, and of a width at which 0.7 * width
\* falls short.
SampleDigitRects ==
    {Rect(0, 0, 20, 40), Rect(10, 5, 20, 40), Rect(80, 90, 20, 40),
     Rect(0, 0, 90, 120), Rect(0, 0, 6, 40), Rect(0, 0, 40, 6),
     Rect(0, 0, 0, 40), Rect(0, 0, 20, -1), Rect(-1, 0, 20, 40),
     Rect(90, 0, 20, 40), Rect(0, 100, 20, 40)}

outsideExtractor == <<csvVars, lineVars, formatVars, decoderVars, scorerVars,
    pipelineVars, ocrVars, cameraVars, serverVars, replayVars, serviceVars,
    hookVars>>
IdleOutsideExtractor ==
    IdleCsv /\ IdleLine /\ IdleFormat /\ IdleDecoder /\ IdleScorer
    /\ IdlePipeline /\ IdleOcr /\ IdleCamera /\ IdleServer /\ IdleReplay
    /\ IdleService /\ IdleHook

InitExtractor ==
    /\ pc = "region"
    /\ isReady \in BOOLEAN
    /\ binaryImage \in BinaryImages \cup {NullObject}
    /\ digitRect \in SampleDigitRects \cup {NullObject}
    /\ isReady = FALSE => binaryImage = NullObject
    /\ segmentStates = AllOff
    /\ contourRects = <<>>
    /\ digitRegions = <<>>
    /\ IdleOutsideExtractor

AnalyzeSegments ==
    /\ pc = "region"
    /\ segmentStates' = analyzeSegments(isReady, binaryImage, digitRect)
    /\ pc' = "analyzed"
    /\ UNCHANGED <<binaryImage, digitRect, detectorVars, outsideExtractor>>

NextExtractor == AnalyzeSegments

SpecExtractor == InitExtractor /\ [][NextExtractor]_vars

\* The white pixels of the image in the rectangle at (x, y) of extent w x h.
WhitePixels(img, x, y, w, h) ==
    {px \in (x..(x + w - 1)) \X (y..(y + h - 1)) :
        \E q \in img.white :
            /\ q.x <= px[1] /\ px[1] < q.x + q.width
            /\ q.y <= px[2] /\ px[2] < q.y + q.height}

\* C11: a segment is on exactly when the white pixels of its floor-rounded
\* sub-rectangle are strictly more than 30% of the sub-rectangle's pixels
\* (exactly 30% is off); a sub-rectangle with zero extent or outside the region
\* is off; a digit region with non-positive width or height or exceeding the
\* image yields all seven segments off, and no error.
C11_SegmentOnAboveThirtyPercent ==
    pc = "analyzed" /\ isReady /\ binaryImage # NullObject /\ digitRect # NullObject =>
        /\ segmentStates \in SegmentStates
        /\ IF \/ digitRect.width <= 0 \/ digitRect.height <= 0
              \/ digitRect.x < 0 \/ digitRect.y < 0
              \/ digitRect.x + digitRect.width > binaryImage.cols
              \/ digitRect.y + digitRect.height > binaryImage.rows
           THEN \A n \in SegmentNames : ~segmentStates[n]
           ELSE \A n \in SegmentNames :
                   LET sr == segmentRect(segmentPositions[n], digitRect)
                       total == sr.width * sr.height
                       white == Cardinality(WhitePixels(binaryImage,
                                    digitRect.x + sr.x, digitRect.y + sr.y,
                                    sr.width, sr.height))
                   IN  segmentStates[n] <=>
                          /\ sr.width > 0 /\ sr.height > 0
                          /\ sr.x + sr.width <= digitRect.width
                          /\ sr.y + sr.height <= digitRect.height
                          /\ 100 * white > 30 * total

\* C11 witness: in a 20 x 40 region the top segment is wholly white and on, and
\* the top right segment has 18 of its 60 pixels white, exactly 30%, and is off.
C11_Witness ==
    /\ pc = "analyzed"
    /\ isReady
    /\ digitRect = Rect(0, 0, 20, 40)
    /\ binaryImage # NullObject
    /\ Cardinality(WhitePixels(binaryImage, 14, 0, 3, 20)) = 18
    /\ segmentStates.a
    /\ ~segmentStates.b

-----------------------------------------------------------------------------
(* calculateConfidence (opencv-service.ts).                                *)

MaxDigits == 2     \* most digits scored at once

\* The decimal digits of 2^1024 - 2^970, the least number that, rounded to a
\* double, is Infinity.
DoubleOverflow ==
    <<"1", "7", "9", "7", "6", "9", "3", "1", "3", "4", "8", "6", "2",
      "3", "1", "5", "8", "0", "7", "9", "3", "7", "2", "8", "9", "7",
      "1", "4", "0", "5", "3", "0", "3", "4", "1", "5", "0", "7", "9",
      "9", "3", "4", "1", "3", "2", "7", "1", "0", "0", "3", "7", "8",
      "2", "6", "9", "3", "6", "1", "7", "3", "7", "7", "8", "9", "8",
      "0", "4", "4", "4", "9", "6", "8", "2", "9", "2", "7", "6", "4",
      "7", "5", "0", "9", "4", "6", "6", "4", "9", "0", "1", "7", "9",
      "7", "7", "5", "8", "7", "2", "0", "7", "0", "9", "6", "3", "3",
      "0", "2", "8", "6", "4", "1", "6", "6", "9", "2", "8", "8", "7",
      "9", "1", "0", "9", "4", "6", "5", "5", "5", "5", "4", "7", "8",
      "5", "1", "9", "4", "0", "4", "0", "2", "6", "3", "0", "6", "5",
      "7", "4", "8", "8", "6", "7", "1", "5", "0", "5", "8", "2", "0",
      "6", "8", "1", "9", "0", "8", "9", "0", "2", "0", "0", "0", "7",
      "0", "8", "3", "8", "3", "6", "7", "6", "2", "7", "3", "8", "5",
      "4", "8", "4", "5", "8", "1", "7", "7", "1", "1", "5", "3", "1",
      "7", "6", "4", "4", "7", "5", "7", "3", "0", "2", "7", "0", "0",
      "6", "9", "8", "5", "5", "5", "7", "1", "3", "6", "6", "9", "5",
      "9", "6", "2", "2", "8", "4", "2", "9", "1", "4", "8", "1", "9",
      "8", "6", "0", "8", "3", "4", "9", "3", "6", "4", "7", "5", "2",
      "9", "2", "7", "1", "9", "0", "7", "4", "1", "6", "8", "4", "4",
      "4", "3", "6", "5", "5", "1", "0", "7", "0", "4", "3", "4", "2",
      "7", "1", "1", "5", "5", "9", "6", "9", "9", "5", "0", "8", "0",
      "9", "3", "0", "4", "2", "8", "8", "0", "1", "7", "7", "9", "0",
      "4", "1", "7", "4", "4", "9", "7", "7", "9", "2">>

\* How many digits s has in a row from position from on.
DigitRun(s, from) ==
    LET stops == {i \in from..Len(s) : ~IsDigit(s[i])}
    IN  IF stops = {} THEN Len(s) - from + 1
        ELSE (CHOOSE i \in stops : \A j \in stops : i <= j) - from

\* a >= b for two numerals of the same length.
NumeralAtLeast(a, b) ==
    \/ a = b
    \/ \E i \in 1..Len(a) :
          /\ DigitValue(a[i]) > DigitValue(b[i])
          /\ \A j \in 1..(i - 1) : a[j] = b[j]

\* parseFloat(s), as NaN, a finite number or Infinity, for a string without
\* exponent: white space skipped, then the longest prefix that is a sign,
\* digits, and a point with digits; NaN when that prefix holds no digit.
ParseFloat(s) ==
    LET t == TrimStart(s)
        sign == IF t # <<>> /\ t[1] \in {"+", "-"} THEN 1 ELSE 0
        int == DigitRun(t, sign + 1)
        point == sign + int + 1
        frac == IF point <= Len(t) /\ t[point] = "."
                THEN DigitRun(t, point + 1) ELSE 0
        numeral == SubSeq(t, sign + 1, sign + int)
        zeros == {i \in 1..int : \A j \in 1..i : numeral[j] = "0"}
        significant == SubSeq(numeral, Cardinality(zeros) + 1, int)
    IN  IF int = 0 /\ frac = 0 THEN "NaN"
        ELSE IF Len(significant) > Len(DoubleOverflow) THEN "Infinity"
        ELSE IF Len(significant) < Len(DoubleOverflow) THEN "finite"
        ELSE IF NumeralAtLeast(significant, DoubleOverflow) THEN "Infinity"
        ELSE "finite"

\* Object.values(segmentState).filter(Boolean).length
activeSegments(seg) ==
    Cardinality({n \in DOMAIN seg : seg[n]})

\* The score added to totalConfidence for one digit, in seventieths:
\* 0.8 + (activeSegments / 7) * 0.2, 0.6 or 0.1.
DigitScore(seg) ==
    LET active == activeSegments(seg)
    IN  IF active >= 2 /\ active <= 7 THEN 56 + 2 * active
        ELSE IF active = 1 THEN 42
        ELSE 7

RECURSIVE totalConfidence(_)
totalConfidence(segs) ==
    IF segs = <<>> THEN 0
    ELSE DigitScore(Head(segs)) + totalConfidence(Tail(segs))

\* The boost without Math.min.
calculateConfidenceUncapped(segs, raw) ==
    IF Len(segs) = 0 THEN Zero
    ELSE IF ParseFloat(formatReadingValue(raw)) # "NaN"
         THEN Fraction(12 * totalConfidence(segs), 700 * Len(segs))
         ELSE Fraction(7 * totalConfidence(segs), 700 * Len(segs))

\* The boost and the discount taken for one another.
calculateConfidenceSwapped(segs, raw) ==
    IF Len(segs) = 0 THEN Zero
    ELSE IF ParseFloat(formatReadingValue(raw)) # "NaN"
         THEN Fraction(7 * totalConfidence(segs), 700 * Len(segs))
         ELSE IF 12 * totalConfidence(segs) < 700 * Len(segs)
              THEN Fraction(12 * totalConfidence(segs), 700 * Len(segs))
              ELSE Fraction(700 * Len(segs), 700 * Len(segs))

\* averageConfidence is totalConfidence / validDigits, and validDigits counts
\* every digit; the result is averageConfidence * 1.2, at most 1.0, or
\* averageConfidence * 0.7.
calculateConfidence(segs, raw) ==
    IF Len(segs) = 0 THEN Zero
    ELSE LET total == totalConfidence(segs)
             validDigits == Len(segs)
             isValidNumber == ParseFloat(formatReadingValue(raw)) # "NaN"
         IN  IF isValidNumber
             THEN IF 12 * total < 700 * validDigits
                  THEN Fraction(12 * total, 700 * validDigits)
                  ELSE Fraction(700 * validDigits, 700 * validDigits)
             ELSE Fraction(7 * total, 700 * validDigits)

\* The SegmentState with the segments of lit on.
Shape(lit) == [n \in SegmentNames |-> n \in lit]

\* Segment states of 0 to 7 active segments, of known and of unknown patterns.
SampleSegmentStates ==
    {Shape({}), Shape({"b"}), Shape({"g"}), Shape({"b", "c"}), Shape({"a", "g"}),
     Shape({"a", "b", "c"}), Shape({"b", "c", "f", "g"}),
     Shape({"a", "c", "d", "f", "g"}), Shape({"a", "b", "c", "d", "e", "f"}),
     Shape({"a", "b", "c", "e", "f", "g"}),
     Shape({"a", "b", "c", "d", "e", "f", "g"})}

\* digits.join('') of the digits decoded from the segment states.
DecodedValue(segs) == [i \in 1..Len(segs) |-> segmentsToDigit(segs[i])]

\* Raw values that normalize to numerals, to strings parseFloat rejects, and to
\* numerals at and beyond the range of the doubles: 10^308 and 10^309 - 1.
ScorerRawValues ==
    {<<>>, <<"5">>, <<"0", ".", "5">>, <<"-", ".", "5">>, <<"5", "-", "3">>,
     <<"-", "-", "5">>, <<"-", "-">>, <<"-", ".", "-">>, <<"?">>,
     [i \in 1..Len(DoubleOverflow) |-> IF i = 1 THEN "1" ELSE "0"],
     [i \in 1..Len(DoubleOverflow) |-> "9"]}

outsideScorer == <<csvVars, lineVars, decoderVars, detectorVars,
    extractorVars, pipelineVars, ocrVars, cameraVars, serverVars, replayVars,
    serviceVars, hookVars>>
IdleOutsideScorer ==
    IdleCsv /\ IdleLine /\ IdleDecoder /\ IdleDetector /\ IdleExtractor
    /\ IdlePipeline /\ IdleOcr /\ IdleCamera /\ IdleServer /\ IdleReplay
    /\ IdleService /\ IdleHook

InitScorer ==
    /\ pc = "digits"
    /\ scoredSegments \in SeqsUpTo(SampleSegmentStates, MaxDigits)
    /\ rawValue \in ScorerRawValues \cup {DecodedValue(scoredSegments)}
    /\ formatted = <<>>
    /\ reformatted = <<>>
    /\ confidence = Zero
    /\ IdleOutsideScorer

\* calculateConfidence(segments, rawValue); formatted is its formattedValue.
CalculateConfidence ==
    /\ pc = "digits"
    /\ formatted' = formatReadingValue(rawValue)
    /\ confidence' = calculateConfidence(scoredSegments, rawValue)
    /\ pc' = "scored"
    /\ UNCHANGED <<scoredSegments, rawValue, reformatted, outsideScorer>>

NextScorer == CalculateConfidence

SpecScorer == InitScorer /\ [][NextScorer]_vars

\* The number of segment states in segs with k active segments.
DigitsWithActive(segs, k) ==
    Cardinality({i \in 1..Len(segs) : Cardinality(Lit(segs[i])) = k})

\* 350 times the sum of the base scores: 0.8 + count/7 * 0.2 for 2..7 active
\* segments, 0.6 for 1, 0.1 for 0.
BaseScoreSum(segs) ==
    DigitsWithActive(segs, 0) * 35 + DigitsWithActive(segs, 1) * 210
      + DigitsWithActive(segs, 2) * 300 + DigitsWithActive(segs, 3) * 310
      + DigitsWithActive(segs, 4) * 320 + DigitsWithActive(segs, 5) * 330
      + DigitsWithActive(segs, 6) * 340 + DigitsWithActive(segs, 7) * 350

\* The fraction q equals n / d.
Equals(q, n, d) == q.num * d = n * q.den

\* The score is the mean base score times 1.2, at most 1.
Boosted(segs, q) ==
    LET sum == BaseScoreSum(segs)
        count == 350 * Len(segs)
    IN  IF 12 * sum <= 10 * count
        THEN Equals(q, 12 * sum, 10 * count)
        ELSE Equals(q, 1, 1)

\* The score is the mean base score times 0.7.
Discounted(segs, q) == Equals(q, 7 * BaseScoreSum(segs), 3500 * Len(segs))

InUnitInterval(q) == q.den > 0 /\ 0 <= q.num /\ q.num <= q.den

AtLeast(p, q) == p.num * q.den >= q.num * p.den

\* The characters of the 17 known patterns.
KnownCharacters == {k[2] : k \in KnownShapes}

\* C13: digits that all match known decoder patterns give a raw string that
\* normalizes to a parseable number; and for a fixed non-empty segment
\* sequence the confidence computed with a parseable result is at least the
\* confidence computed with an unparseable result.
C13_ParseableScoresAtLeastUnparseable ==
    pc = "scored" =>
        /\ (/\ \A i \in 1..Len(scoredSegments) :
                  Lit(scoredSegments[i]) \in {k[1] : k \in KnownShapes}
            /\ Len(rawValue) = Len(scoredSegments)
            /\ \A i \in 1..Len(rawValue) :
                  <<Lit(scoredSegments[i]), rawValue[i]>> \in KnownShapes)
           => ParseFloat(formatted) # "NaN"
        /\ scoredSegments # <<>> =>
              \A other \in ScorerRawValues :
                 LET otherParses ==
                         ParseFloat(formatReadingValue(other)) # "NaN"
                     otherScore == calculateConfidence(scoredSegments, other)
                 IN  /\ (ParseFloat(formatted) # "NaN" /\ ~otherParses)
                            => AtLeast(confidence, otherScore)
                     /\ (ParseFloat(formatted) = "NaN" /\ otherParses)
                            => AtLeast(otherScore, confidence)

\* C13 witness: the digits 'A' and '1', both of known patterns, gave the raw
\* string "A1", which normalizes to "1", and scored above the 0.7 of the mean
\* that an unparseable string gets.
C13_Witness ==
    /\ pc = "scored"
    /\ Len(scoredSegments) = 2
    /\ rawValue = <<"A", "1">>
    /\ rawValue = DecodedValue(scoredSegments)
    /\ formatted = <<"1">>
    /\ ~AtLeast(calculateConfidence(scoredSegments, <<"-", "-">>), confidence)

-----------------------------------------------------------------------------
(* processImage (use-opencv hook).                                         *)

\* Two white rectangles whose pixels overlap or are neighbours, the diagonal
\* ones included, belong to one outline.
Touches(r, q) ==
    /\ r.x <= q.x + q.width /\ q.x <= r.x + r.width
    /\ r.y <= q.y + q.height /\ q.y <= r.y + r.height

\* The white rectangles connected to r.
Component(blobs, r) ==
    LET reach[k \in 0..Cardinality(blobs)] ==
            IF k = 0 THEN {r}
            ELSE LET near == reach[k - 1]
                 IN  near \cup {q \in blobs : \E p \in near : Touches(p, q)}
    IN  reach[Cardinality(blobs)]

Least(S) == CHOOSE n \in S : \A m \in S : n <= m
Greatest(S) == CHOOSE n \in S : \A m \in S : n >= m

\* cv.boundingRect of the outline made of the rectangles of blobs.
boundingRect(blobs) ==
    LET x1 == Least({q.x : q \in blobs})
        y1 == Least({q.y : q \in blobs})
        x2 == Greatest({q.x + q.width : q \in blobs})
        y2 == Greatest({q.y + q.height : q \in blobs})
    IN  Rect(x1, y1, x2 - x1, y2 - y1)

\* The bounding rectangles of the external outlines cv.findContours finds in
\* an image none of whose outlines lies in a hole of another.
OutlineRects(img) ==
    {boundingRect(Component(img.white, r)) : r \in img.white}

\* The sequences that hold each element of S once: findContours returns the
\* outlines in an order of its own.
Orderings(S) ==
    {q \in [1..Cardinality(S) -> S] :
        \A i, j \in 1..Cardinality(S) : q[i] = q[j] => i = j}

\* What processImage returns when it has nothing.
EmptyResult ==
    [threw |-> FALSE, value |-> <<>>, confidence |-> Zero, segments |-> <<>>]

\* The mean of the digits' confidences, each in seventieths: 0.9 for a known
\* character, Math.max(0.1, segmentCount / 7) for '?'.
RECURSIVE regionConfidence(_)
regionConfidence(segs) ==
    IF segs = <<>> THEN 0
    ELSE LET segmentCount == Cardinality({n \in SegmentNames : Head(segs)[n]})
             one == IF segmentsToDigit(Head(segs)) # "?" THEN 63
                    ELSE IF 10 * segmentCount > 7 THEN 10 * segmentCount
                    ELSE 7
         IN  one + regionConfidence(Tail(segs))

\* The body of processImage's try block. fault names the step that raises:
\* preprocessImage, detectDisplay and analyzeSegments catch what raises in them
\* and return null, [] and all segments off; binaryImage.delete() raises into
\* the block.
processImageBody(img, rects, fault) ==
    LET binary == IF fault = "preprocess" THEN NullObject ELSE img
        regions == IF fault = "detect" THEN <<>> ELSE detectDisplay(TRUE, rects)
        allSegments ==
            [i \in 1..Len(regions) |->
                IF fault = "analyze" THEN AllOff
                ELSE analyzeSegments(TRUE, binary, regions[i])]
    IN  IF binary = NullObject THEN EmptyResult
        ELSE IF fault = "delete" THEN [EmptyResult EXCEPT !.threw = TRUE]
        ELSE IF Len(regions) = 0 THEN EmptyResult
        ELSE [threw |-> FALSE,
              value |-> DecodedValue(allSegments),
              confidence |-> Fraction(regionConfidence(allSegments),
                                      70 * Len(regions)),
              segments |-> allSegments]

\* processImage without its catch.
processImageUncaught(ready, img, rects, fault) ==
    IF ~ready THEN EmptyResult
    ELSE processImageBody(img, rects, fault)

processImage(ready, img, rects, fault) ==
    IF ~ready THEN EmptyResult
    ELSE LET body == processImageBody(img, rects, fault)
         IN  IF body.threw THEN EmptyResult ELSE body

-----------------------------------------------------------------------------
(* processImage of the OCR hook and of TesseractService.                   *)

\* What the OCR processImage resolves with when it has nothing.
EmptyOcrResult == [rejected |-> FALSE, value |-> <<>>, confidence |-> Zero]

\* The replacements of cleanDigitalReading: O -> 0, I, l, | -> 1, S -> 5,
\* G -> 6, B -> 8.
FixOcrMistake(c) ==
    IF c \in {"O", "o"} THEN "0"
    ELSE IF c \in {"I", "l", "|"} THEN "1"
    ELSE IF c \in {"S", "s"} THEN "5"
    ELSE IF c \in {"G", "g"} THEN "6"
    ELSE IF c \in {"B", "b"} THEN "8"
    ELSE c

cleanDigitalReading(text) ==
    IF text = <<>> THEN <<>>
    ELSE LET spaceless == SelectSeq(text, LAMBDA c : c \notin WhiteSpace)
             fixed == [i \in 1..Len(spaceless) |-> FixOcrMistake(spaceless[i])]
             cleaned == NoTrailingPoint(LeadingZero(OneDecimalPoint(Cleaned(fixed))))
         IN  IF cleaned = <<>> \/ cleaned = <<"-">> \/ cleaned = <<".">>
             THEN <<"0">>
             ELSE cleaned

\* TesseractService.processImage: rejects when the service is not initialized
\* or has no worker; what raises at the canvas or in worker.recognize is
\* caught and answered with the empty result. A terminated worker rejects the
\* job.
serviceProcessImage(initialized, wrk, recognized, fault) ==
    IF ~initialized \/ wrk = "null"
    THEN [EmptyOcrResult EXCEPT !.rejected = TRUE]
    ELSE IF fault \in {"canvas", "recognize"} \/ wrk = "terminated"
    THEN EmptyOcrResult
    ELSE [rejected |-> FALSE,
          value |-> cleanDigitalReading(Trim(recognized.text)),
          confidence |-> Fraction(recognized.confidence, 100)]

\* The hook's processImage without its catch.
ocrProcessImageUncaught(ready, initialized, wrk, recognized, fault) ==
    IF ~ready THEN EmptyOcrResult
    ELSE serviceProcessImage(initialized, wrk, recognized, fault)

\* useTesseract.processImage (serviceRef.current is set before isReady is).
ocrProcessImage(ready, initialized, wrk, recognized, fault) ==
    IF ~ready THEN EmptyOcrResult
    ELSE LET served == serviceProcessImage(initialized, wrk, recognized, fault)
         IN  IF served.rejected THEN EmptyOcrResult ELSE served

\* What stands before the camera: a white block 20 x 40, the white frame of a
\* block 20 x 40, a white speck 5 x 5 and a second white block, apart from one
\* another.
FilledDigit == {Rect(0, 0, 20, 40)}
HollowDigit ==
    {Rect(30, 0, 20, 1), Rect(30, 39, 20, 1), Rect(30, 0, 1, 40),
     Rect(49, 0, 1, 40)}
Speck == {Rect(60, 0, 5, 5)}
FilledDigitRight == {Rect(70, 10, 20, 40)}
Scenes ==
    {[cols |-> 100, rows |-> 130, white |-> UNION parts] :
        parts \in SUBSET {FilledDigit, HollowDigit, Speck, FilledDigitRight}}

\* What worker.recognize resolves with: the text and a confidence in percent.
RecognizedTexts ==
    {<<>>, <<"1", "2", ".", "5">>, <<" ", "1", " ", "2", "\n">>,
     <<"O", ".", "S">>, <<"-">>, <<"x", "y", "z">>, <<"l", "B">>}
Recognitions ==
    {[text |-> t, confidence |-> c] : t \in RecognizedTexts, c \in {0, 87, 100}}

outsidePipeline == <<csvVars, lineVars, formatVars, decoderVars, scorerVars,
    cameraVars, serverVars, replayVars, serviceVars, hookVars>>
IdleOutsidePipeline ==
    IdleCsv /\ IdleLine /\ IdleFormat /\ IdleDecoder /\ IdleScorer
    /\ IdleCamera /\ IdleServer /\ IdleReplay /\ IdleService /\ IdleHook

\* A frame handed to the 7-segment processImage, or one handed to the OCR
\* hook's processImage.
InitPipeline ==
    /\ \/ /\ pc = "frame"
          /\ isReady \in BOOLEAN
          /\ binaryImage \in Scenes
          /\ contourRects \in Orderings(OutlineRects(binaryImage))
          /\ raises \in {"none", "preprocess", "detect", "analyze", "delete"}
          /\ IdleOcr
       \/ /\ pc = "ocrFrame"
          /\ isReady = FALSE
          /\ binaryImage = NullObject
          /\ contourRects = <<>>
          /\ ocrReady \in BOOLEAN
          /\ \E service \in {<<FALSE, "null">>, <<FALSE, "live">>,
                             <<TRUE, "live">>, <<TRUE, "terminated">>} :
                isInitialized = service[1] /\ worker = service[2]
          /\ recognition \in Recognitions
          /\ ocrResult = NullObject
          /\ raises \in {"none", "canvas", "recognize"}
    /\ digitRegions = <<>>
    /\ digitRect = NullObject
    /\ segmentStates = AllOff
    /\ detection = NullObject
    /\ IdleOutsidePipeline

\* processImage of the use-opencv hook; digitRegions is what its detectDisplay
\* returned, if it came to that.
ProcessImage ==
    /\ pc = "frame"
    /\ detection' = processImage(isReady, binaryImage, contourRects, raises)
    /\ digitRegions' = IF isReady /\ raises \notin {"preprocess", "detect"}
                       THEN detectDisplay(isReady, contourRects)
                       ELSE <<>>
    /\ pc' = "detected"
    /\ UNCHANGED <<isReady, contourRects, binaryImage, digitRect, segmentStates,
                   raises, ocrVars, outsidePipeline>>

\* processImage of the useTesseract hook: how its promise settles.
OcrProcessImage ==
    /\ pc = "ocrFrame"
    /\ ocrResult' = ocrProcessImage(ocrReady, isInitialized, worker, recognition,
                                    raises)
    /\ pc' = "recognized"
    /\ UNCHANGED <<ocrReady, isInitialized, worker, recognition, pipelineVars,
                   detectorVars, extractorVars, outsidePipeline>>

NextPipeline == ProcessImage \/ OcrProcessImage

SpecPipeline == InitPipeline /\ [][NextPipeline]_vars

\* The outline rectangle passes the detector's filter.
Qualifies(r) ==
    /\ 500 < r.width * r.height /\ r.width * r.height < 50000
    /\ 12 * r.width < 10 * r.height /\ 10 * r.height < 30 * r.width

C15_ResultPassesScorerAndNormalizer ==
    pc = "detected" /\ digitRegions # <<>> /\ raises = "none" =>
        LET raw == DecodedValue(detection.segments)
            scored == calculateConfidence(detection.segments, raw)
        IN  /\ Equals(detection.confidence, scored.num, scored.den)
            /\ detection.value = formatReadingValue(raw)

\* ---------------------------------------------------------------------------
\* CameraView: manual and automatic capture (camera-view.tsx).
\* ---------------------------------------------------------------------------

\* The captures that may await processImage together, and the timers (interval
\* timers and pending retries) one run may create.
MaxFrames == 2
MaxTimers == 3

\* The period handed to setInterval, in milliseconds.
CapturePeriod == 5000

\* The capture intervals, in seconds, the settings dialog is exercised with
\* (its input takes 1 to 60).
IntervalChoices == {1, 5, 10}

\* What processImage resolves with, the confidence in hundredths: nothing
\* read, "0", two readings.
Detection(value, hundredths) == [value |-> value, confidence |-> hundredths]
Detections ==
    {Detection(<<>>, 0), Detection(<<"0">>, 50),
     Detection(<<"1", ".", "5">>, 90), Detection(<<"2">>, 50)}

\* Number.prototype.toString of a confidence of 0 to 100 hundredths.
ConfidenceToString(hundredths) ==
    IF hundredths = 0 THEN <<"0">>
    ELSE IF hundredths = 100 THEN <<"1">>
    ELSE <<"0", ".">>
         \o (IF hundredths % 10 = 0 THEN <<DigitChar(hundredths \div 10)>>
             ELSE <<DigitChar(hundredths \div 10), DigitChar(hundredths % 10)>>)

\* The currentReading and confidence a handleCapture closes over: those of
\* the render that made it.
RenderClosure == [shown |-> currentReading, confidence |-> readingConfidence]

\* setInterval inside checkVideoReady: the callback closes over the
\* handleCapture of the render whose effect created it.
IntervalTimer(id, closure) ==
    [id |-> id, period |-> CapturePeriod, closure |-> closure]

\* clearInterval(handle); a null handle (0) or a cleared one clears nothing.
clearInterval(timers, handle) == {t \in timers : t.id # handle}

\* The cleanup the last run of the auto-capture effect returned, with the
\* autoInterval of that run's render.
AfterCleanup ==
    IF cleanupHandle > 0
    THEN [intervals |-> clearInterval(intervals, cleanupHandle),
          autoInterval |-> 0]
    ELSE [intervals |-> intervals, autoInterval |-> autoInterval]

\* One run of the auto-capture effect after a change of captureMode,
\* cameraActive or ocrReady: the cleanup of the previous run, then the body
\* with the autoInterval of this render.  The state updates queue in that
\* order.
AutoCaptureEffect(mode, active, ready) ==
    LET kept == AfterCleanup.intervals
        handle == AfterCleanup.autoInterval
    IN  IF mode = "auto" /\ active /\ ready
        THEN IF videoReady
             THEN [intervals |-> kept \cup
                       {IntervalTimer(nextTimer, RenderClosure)},
                   autoInterval |-> nextTimer,
                   retries |-> retries,
                   cleanupHandle |-> autoInterval,
                   nextTimer |-> nextTimer + 1]
             ELSE [intervals |-> kept,
                   autoInterval |-> handle,
                   retries |-> Append(retries, RenderClosure),
                   cleanupHandle |-> autoInterval,
                   nextTimer |-> nextTimer]
        ELSE IF autoInterval # 0
        THEN [intervals |-> clearInterval(kept, autoInterval),
              autoInterval |-> 0,
              retries |-> retries,
              cleanupHandle |-> NoCleanup,
              nextTimer |-> nextTimer]
        ELSE [intervals |-> kept,
              autoInterval |-> handle,
              retries |-> retries,
              cleanupHandle |-> NoCleanup,
              nextTimer |-> nextTimer]

\* The effect run as part of the action that changed a dependency.
RunAutoCaptureEffect(mode, active, ready) ==
    LET after == AutoCaptureEffect(mode, active, ready)
    IN  /\ intervals' = after.intervals
        /\ autoInterval' = after.autoInterval
        /\ retries' = after.retries
        /\ cleanupHandle' = after.cleanupHandle
        /\ nextTimer' = after.nextTimer

\* Room for one more timer or retry.
CanArm == nextTimer + Len(retries) <= MaxTimers

\* handleCapture after processFrame has returned: the reading of the closure
\* is handed to the mutation unless it is still the initial "0.00".
SavesReading(closure) == closure.shown # InitialReading
PostedReading(closure) ==
    IF SavesReading(closure)
    THEN [value |-> closure.shown,
          confidence |-> ConfidenceToString(closure.confidence)]
    ELSE NullObject

outsideCamera == <<csvVars, lineVars, formatVars, decoderVars, detectorVars,
    extractorVars, scorerVars, pipelineVars, isInitialized, worker,
    recognition, ocrResult, serverVars, replayVars, serviceVars, hookVars>>
IdleOutsideCamera ==
    IdleCsv /\ IdleLine /\ IdleFormat /\ IdleDecoder /\ IdleDetector
    /\ IdleExtractor /\ IdleScorer /\ IdlePipeline /\ isInitialized = FALSE
    /\ worker = "null" /\ recognition = NullObject /\ ocrResult = NullObject
    /\ IdleServer /\ IdleReplay /\ IdleService /\ IdleHook

\* CameraView mounted by Home in manual mode: the camera is starting, the OCR
\* worker is initializing, no timer is set.
InitCamera ==
    /\ pc = "view"
    /\ IdleCamera
    /\ ocrReady = FALSE
    /\ IdleOutsideCamera

\* Home.handleModeChange: the captureMode prop changes.
HandleModeChange ==
    \E mode \in {"manual", "auto"} :
        /\ pc = "view"
        /\ mounted
        /\ mode # captureMode
        /\ CanArm
        /\ captureMode' = mode
        /\ RunAutoCaptureEffect(mode, cameraActive, ocrReady)
        /\ UNCHANGED <<pc, cameraActive, videoReady, frames, isProcessing,
                       currentReading, mutationPending, savedAutoInterval,
                       readingConfidence, lastResult, posted, mounted,
                       ocrReady, outsideCamera>>

\* startCamera resolves: the hook's isActive becomes true.
CameraStarts ==
    /\ pc = "view"
    /\ mounted
    /\ ~cameraActive
    /\ CanArm
    /\ cameraActive' = TRUE
    /\ RunAutoCaptureEffect(captureMode, TRUE, ocrReady)
    /\ UNCHANGED <<pc, captureMode, videoReady, frames, isProcessing,
                   currentReading, mutationPending, savedAutoInterval,
                   readingConfidence, lastResult, posted, mounted,
                   ocrReady, outsideCamera>>

\* The OCR hook reports ready.
OcrInitialized ==
    /\ pc = "view"
    /\ mounted
    /\ ~ocrReady
    /\ CanArm
    /\ ocrReady' = TRUE
    /\ RunAutoCaptureEffect(captureMode, cameraActive, TRUE)
    /\ UNCHANGED <<pc, captureMode, cameraActive, videoReady, frames,
                   isProcessing, currentReading, mutationPending,
                   savedAutoInterval, readingConfidence, lastResult, posted,
                   mounted, outsideCamera>>

\* The video element gets its dimensions.
VideoLoads ==
    /\ pc = "view"
    /\ mounted
    /\ cameraActive /\ ~videoReady
    /\ videoReady' = TRUE
    /\ UNCHANGED <<pc, captureMode, cameraActive, autoInterval, intervals,
                   retries, cleanupHandle, nextTimer, frames, isProcessing,
                   currentReading, mutationPending, savedAutoInterval,
                   readingConfidence, lastResult, posted, mounted,
                   ocrReady, outsideCamera>>

\* A pending setTimeout(checkVideoReady, 500) fires: it sets the interval
\* timer if the video element is there and has dimensions, and re-arms itself
\* if not.  Nothing cancels it, and it does not look at captureMode.
CheckVideoReady ==
    /\ pc = "view"
    /\ retries # <<>>
    /\ IF mounted /\ videoReady
       THEN /\ intervals' = intervals \cup
                    {IntervalTimer(nextTimer, Head(retries))}
            /\ autoInterval' = nextTimer
            /\ nextTimer' = nextTimer + 1
            /\ retries' = Tail(retries)
       ELSE UNCHANGED <<intervals, autoInterval, nextTimer, retries>>
    /\ UNCHANGED <<pc, captureMode, cameraActive, videoReady, cleanupHandle,
                   frames, isProcessing, currentReading, mutationPending,
                   savedAutoInterval, readingConfidence, lastResult, posted,
                   mounted, ocrReady, outsideCamera>>

\* A click on the capture button, enabled while the camera is active, OCR is
\* ready and no save is pending: handleCapture(true) of the current render.
\* processFrame returns at once if captureFrame gives no image, and
\* handleCapture goes on to save.
ClickCapture ==
    /\ pc = "view"
    /\ mounted
    /\ cameraActive /\ ocrReady /\ ~mutationPending
    /\ Len(frames) < MaxFrames
    /\ IF videoReady
       THEN /\ frames' = Append(frames, [by |-> "click",
                                         closure |-> RenderClosure])
            /\ isProcessing' = TRUE
            /\ UNCHANGED <<mutationPending, lastResult, posted>>
       ELSE /\ mutationPending' = SavesReading(RenderClosure)
            /\ lastResult' = NullObject
            /\ posted' = PostedReading(RenderClosure)
            /\ UNCHANGED <<frames, isProcessing>>
    /\ UNCHANGED <<pc, captureMode, cameraActive, videoReady, autoInterval,
                   intervals, retries, cleanupHandle, nextTimer,
                   currentReading, savedAutoInterval, readingConfidence,
                   mounted, ocrReady, outsideCamera>>

\* An interval timer fires: handleCapture(true) of the render that set it, if
\* the video it holds has dimensions.  After an unmount videoRef.current is
\* null, captureFrame gives no image, and handleCapture goes on to save.
TimerTick ==
    \E t \in intervals :
        /\ pc = "view"
        /\ videoReady
        /\ Len(frames) < MaxFrames
        /\ IF mounted
           THEN /\ frames' = Append(frames, [by |-> "timer",
                                             closure |-> t.closure])
                /\ isProcessing' = TRUE
                /\ UNCHANGED <<mutationPending, lastResult, posted>>
           ELSE /\ mutationPending' = (mutationPending
                                       \/ SavesReading(t.closure))
                /\ lastResult' = NullObject
                /\ posted' = PostedReading(t.closure)
                /\ UNCHANGED <<frames, isProcessing>>
        /\ UNCHANGED <<pc, captureMode, cameraActive, videoReady,
                       autoInterval, intervals, retries, cleanupHandle,
                       nextTimer, currentReading, savedAutoInterval,
                       readingConfidence, mounted, ocrReady, outsideCamera>>

\* processImage resolves for the oldest capture: the rest of processFrame
\* and of handleCapture.  The state setters do nothing after an unmount.
ProcessFrameResumes ==
    \E result \in Detections :
        LET read == result.value # <<>> /\ result.value # <<"0">>
        IN  /\ pc = "view"
            /\ frames # <<>>
            /\ currentReading' = IF read /\ mounted THEN result.value
                                 ELSE currentReading
            /\ readingConfidence' = IF read /\ mounted THEN result.confidence
                                    ELSE readingConfidence
            /\ isProcessing' = FALSE
            /\ lastResult' = result
            /\ posted' = PostedReading(Head(frames).closure)
            /\ mutationPending' = (mutationPending
                                   \/ SavesReading(Head(frames).closure))
            /\ frames' = Tail(frames)
            /\ UNCHANGED <<pc, captureMode, cameraActive, videoReady,
                           autoInterval, intervals, retries, cleanupHandle,
                           nextTimer, savedAutoInterval, mounted, ocrReady,
                           outsideCamera>>

\* The POST of a reading is answered.
MutationSettles ==
    /\ pc = "view"
    /\ mutationPending
    /\ mutationPending' = FALSE
    /\ UNCHANGED <<pc, captureMode, cameraActive, videoReady, autoInterval,
                   intervals, retries, cleanupHandle, nextTimer, frames,
                   isProcessing, currentReading, savedAutoInterval,
                   readingConfidence, lastResult, posted, mounted,
                   ocrReady, outsideCamera>>

\* SettingsModal.handleSaveSettings: the autoInterval setting is stored.
HandleSaveSettings ==
    \E seconds \in IntervalChoices :
        /\ pc = "view"
        /\ seconds # savedAutoInterval
        /\ savedAutoInterval' = seconds
        /\ UNCHANGED <<pc, captureMode, cameraActive, videoReady,
                       autoInterval, intervals, retries, cleanupHandle,
                       nextTimer, frames, isProcessing, currentReading,
                       mutationPending, readingConfidence, lastResult,
                       posted, mounted, ocrReady, outsideCamera>>

\* Home leaves the camera tab and CameraView unmounts.  The cleanups of the
\* mount effect and of the camera hook belong to the first render, whose
\* stream and autoInterval are null: they stop and clear nothing.  The
\* cleanup of the auto-capture effect clears the handle it holds.  Pending
\* retries and the timers no cleanup holds stay.
Unmount ==
    /\ pc = "view"
    /\ mounted
    /\ mounted' = FALSE
    /\ intervals' = AfterCleanup.intervals
    /\ cleanupHandle' = NoCleanup
    /\ UNCHANGED <<pc, captureMode, cameraActive, videoReady, autoInterval,
                   retries, nextTimer, frames, isProcessing, currentReading,
                   mutationPending, savedAutoInterval, readingConfidence,
                   lastResult, posted, ocrReady, outsideCamera>>

NextCamera ==
    \/ HandleModeChange
    \/ CameraStarts
    \/ OcrInitialized
    \/ VideoLoads
    \/ CheckVideoReady
    \/ ClickCapture
    \/ TimerTick
    \/ ProcessFrameResumes
    \/ MutationSettles
    \/ HandleSaveSettings
    \/ Unmount

SpecCamera == InitCamera /\ [][NextCamera]_vars

\* C16: at most one frame is in flight: no processFrame starts while an
\* earlier one still awaits processImage.
C16_AtMostOneFrameInFlight == Len(frames) <= 1

\* C17: every running capture timer has the period of the saved autoInterval
\* setting.
C17_TimerPeriodIsSavedInterval ==
    \A t \in intervals : t.period = 1000 * savedAutoInterval

\* C22: a saving capture whose detection gave a value other than "" and "0"
\* submits that value with that detection's confidence.
C22_SubmitsTheDetectedReading ==
    (/\ lastResult # NullObject
     /\ lastResult.value # <<>> /\ lastResult.value # <<"0">>
     /\ posted # NullObject)
    => /\ posted.value = lastResult.value
       /\ posted.confidence = ConfidenceToString(lastResult.confidence)

\* C23: an auto-capture interval timer runs only while CameraView is mounted
\* in auto mode, and never more than one.
C23_OneTimerOnlyWhileMountedInAuto ==
    /\ Cardinality(intervals) <= 1
    /\ intervals # {} => mounted /\ captureMode = "auto"

\* ---------------------------------------------------------------------------
\* The server: MemStorage and the routes of readings and settings
\* (part_000), and the pager of DataView (data-view.tsx).
\* ---------------------------------------------------------------------------

\* The UUIDs drawn after the default settings' five, the latest instant of
\* the clock, and the largest limit and offset of a query.
MaxCreated == 3
MaxClock == 1
MaxLimit == 2
MaxOffset == 2

\* JavaScript values of a request body.
JsString(s) == <<"string", s>>
JsNumber(n) == <<"number", n>>
JsUndefined == <<"undefined">>
JsNull == <<"null">>
IsString(v) == v[1] = "string"

\* v || null for a value a schema has accepted: undefined, null and the empty
\* string give null.
OrNull(v) == IF IsString(v) /\ v[2] # "" THEN v ELSE JsNull

\* new Date(): an instant of the clock, which may stand still or be set back
\* between two calls.
Instants == 0..MaxClock

\* randomUUID(): the generator does not return a value twice.
randomUUID(next) == next

\* parseInt(query) || fallback, for a query parameter absent or not a
\* numeral (<<>>, parsed to NaN) or a numeral (<<n>>).
ParseIntOr(query, fallback) ==
    IF query = <<>> \/ query[1] = 0 THEN fallback ELSE query[1]

\* Array.prototype.slice(start, end).
SliceIndex(len, at) ==
    IF at < 0 THEN (IF len + at < 0 THEN 0 ELSE len + at)
    ELSE IF at > len THEN len ELSE at
slice(array, start, end) ==
    LET from == SliceIndex(Len(array), start)
        to == SliceIndex(Len(array), end)
    IN  [k \in 1..(IF to > from THEN to - from ELSE 0) |-> array[from + k]]

\* Array.prototype.sort with the comparator b.timestamp - a.timestamp: stable,
\* so equal timestamps keep their order.
RECURSIVE InsertNewestFirst(_, _, _)
InsertNewestFirst(sorted, item, k) ==
    IF k > Len(sorted) \/ sorted[k].timestamp < item.timestamp
    THEN SubSeq(sorted, 1, k - 1) \o <<item>> \o SubSeq(sorted, k, Len(sorted))
    ELSE InsertNewestFirst(sorted, item, k + 1)
RECURSIVE SortNewestFirst(_, _, _)
SortNewestFirst(array, k, sorted) ==
    IF k > Len(array) THEN sorted
    ELSE SortNewestFirst(array, k + 1, InsertNewestFirst(sorted, array[k], 1))

\* MemStorage.getAllReadings.
getAllReadingsSliceToLimit(map, limit, offset) ==
    slice(SortNewestFirst(map, 1, <<>>), offset, limit)
getAllReadings(map, limit, offset) ==
    slice(SortNewestFirst(map, 1, <<>>), offset, offset + limit)

\* Map.get, Map.delete and Map.set on a Map kept as the sequence of its
\* values in insertion order; the key of a reading is its id, of a setting
\* its key.
ReadingAt(map, id) == {k \in 1..Len(map) : map[k].id = id}
SettingAt(map, key) == {k \in 1..Len(map) : map[k].key = key}
Without(map, at) == SelectSeq([k \in 1..Len(map) |-> <<k, map[k]>>],
                              LAMBDA e : e[1] \notin at)
MapDelete(map, at) == [k \in 1..Len(Without(map, at)) |-> Without(map, at)[k][2]]
MapSet(map, at, value) ==
    IF at = {} THEN Append(map, value)
    ELSE [k \in 1..Len(map) |-> IF k \in at THEN value ELSE map[k]]

\* insertReadingSchema.parse: value, quantity, unit and mode are strings,
\* confidence is a string, null or absent.  The parsed object has the
\* schema's keys only.
ValidInsertReading(body) ==
    /\ IsString(body.value) /\ IsString(body.quantity)
    /\ IsString(body.unit) /\ IsString(body.mode)
    /\ \/ IsString(body.confidence)
       \/ body.confidence \in {JsNull, JsUndefined}

\* MemStorage.createReading: the map after the call and the Reading returned.
createReadingCountedId(map, insertReading, id, now) ==
    LET reading == [id |-> Len(map) + 1,
                    value |-> insertReading.value,
                    quantity |-> insertReading.quantity,
                    unit |-> insertReading.unit,
                    timestamp |-> now,
                    mode |-> insertReading.mode,
                    confidence |-> OrNull(insertReading.confidence)]
    IN  [map |-> Append(map, reading), reading |-> reading]
createReading(map, insertReading, id, now) ==
    LET reading == [id |-> id,
                    value |-> insertReading.value,
                    quantity |-> insertReading.quantity,
                    unit |-> insertReading.unit,
                    timestamp |-> now,
                    mode |-> insertReading.mode,
                    confidence |-> OrNull(insertReading.confidence)]
    IN  [map |-> MapSet(map, ReadingAt(map, id), reading),
         reading |-> reading]

\* MemStorage.deleteReading: the map after the call and the boolean returned.
deleteReading(map, id) ==
    [map |-> MapDelete(map, ReadingAt(map, id)),
     deleted |-> ReadingAt(map, id) # {}]

\* insertSettingSchema.parse of the key of the path and the value of the
\* body.
ValidInsertSetting(insertSetting) ==
    IsString(insertSetting.key) /\ IsString(insertSetting.value)

\* MemStorage.setSetting: the map after the call, the Setting returned and
\* whether a UUID was drawn.
setSettingInserted(map, insertSetting, id, now) ==
    LET setting == [id |-> id, key |-> insertSetting.key,
                    value |-> insertSetting.value, updatedAt |-> now]
    IN  [map |-> Append(map, setting), setting |-> setting, drew |-> TRUE]
setSetting(map, insertSetting, id, now) ==
    LET existing == SettingAt(map, insertSetting.key)
        setting == [id |-> IF existing # {}
                           THEN map[CHOOSE k \in existing : TRUE].id
                           ELSE id,
                    key |-> insertSetting.key,
                    value |-> insertSetting.value,
                    updatedAt |-> now]
    IN  [map |-> MapSet(map, existing, setting),
         setting |-> setting,
         drew |-> existing = {}]

\* MemStorage.deleteSetting.
deleteSetting(map, key) ==
    [map |-> MapDelete(map, SettingAt(map, key)),
     deleted |-> SettingAt(map, key) # {}]

\* MemStorage.initializeDefaultSettings.
defaultSettings ==
    <<[key |-> JsString("threshold"), value |-> JsString("128")],
      [key |-> JsString("autoCrop"), value |-> JsString("true")],
      [key |-> JsString("speechRate"), value |-> JsString("1")],
      [key |-> JsString("autoInterval"), value |-> JsString("5")],
      [key |-> JsString("selectedVoice"), value |-> JsString("default")]>>

\* The route GET /api/readings.
DefaultLimit == 100
getReadings(map, limitQuery, offsetQuery) ==
    LET limit == ParseIntOr(limitQuery, DefaultLimit)
        offset == ParseIntOr(offsetQuery, 0)
        totalCount == Len(map)
    IN  [status |-> 200,
         body |-> [readings |-> getAllReadings(map, limit, offset),
                   pagination |-> [limit |-> limit,
                                   offset |-> offset,
                                   total |-> totalCount,
                                   hasMore |-> offset + limit < totalCount]]]

\* The request bodies of POST /api/readings: a reading with a confidence,
\* one with an empty confidence, one without its value.
Body(val, conf) ==
    [value |-> val, quantity |-> JsString("voltage"),
     unit |-> JsString("V"), mode |-> JsString("manual"),
     confidence |-> conf]
SampleReadingBodies ==
    {Body(JsString("1.5"), JsString("0.9")),
     Body(JsString("2"), JsString("")),
     Body(JsUndefined, JsString("0.9"))}

\* The keys and the body values of PUT and DELETE /api/settings/:key: a
\* default's key and a new one; two strings, a number and no value.
SampleKeys == {JsString("threshold"), JsString("theme")}
SampleSettingValues ==
    {JsString("200"), JsString("dark"), JsNumber(200), JsUndefined}

\* The query parameters of GET /api/readings.
LimitQueries == {<<>>} \cup {<<n>> : n \in 0..MaxLimit}
OffsetQueries == {<<>>} \cup {<<n>> : n \in (0 - 1)..MaxOffset}

outsideServer == <<csvVars, lineVars, formatVars, decoderVars, detectorVars,
    extractorVars, scorerVars, pipelineVars, ocrVars, cameraVars, replayVars,
    serviceVars, hookVars>>
IdleOutsideServer ==
    IdleCsv /\ IdleLine /\ IdleFormat /\ IdleDecoder /\ IdleDetector
    /\ IdleExtractor /\ IdleScorer /\ IdlePipeline /\ IdleOcr /\ IdleCamera
    /\ IdleReplay /\ IdleService /\ IdleHook

\* The store when its constructor returns: initializeDefaultSettings has run
\* to its first await, so the first default is written and the others are
\* pending.  Instant 0 is the instant of construction.
InitServer ==
    LET first == setSetting(<<>>, defaultSettings[1], randomUUID(1), 0)
    IN  /\ pc = "serving"
        /\ readingsMap = <<>>
        /\ settingsMap = first.map
        /\ seeded = 1
        /\ nextId = 2
        /\ request = NoRequest
        /\ response = NoResponse
        /\ currentPage = 0
        /\ itemsPerPage = ITEMS_PER_PAGE
        /\ pages = <<>>
        /\ IdleOutsideServer

\* initializeDefaultSettings resumes after an await and writes the next
\* default.  The resumptions are microtasks: they run before any request is
\* handled.
SeedDefaultSetting ==
    /\ pc = "serving"
    /\ seeded < Len(defaultSettings)
    /\ LET put == setSetting(settingsMap, defaultSettings[seeded + 1],
                             randomUUID(nextId), 0)
       IN  /\ settingsMap' = put.map
           /\ nextId' = IF put.drew THEN nextId + 1 ELSE nextId
    /\ seeded' = seeded + 1
    /\ UNCHANGED <<pc, readingsMap, request, response, currentPage,
                   itemsPerPage, pages, outsideServer>>

Serving == pc = "serving" /\ seeded = Len(defaultSettings)
CanDraw == nextId <= Len(defaultSettings) + MaxCreated

\* GET /api/readings?limit=&offset=
GetReadings ==
    \E limitQuery \in LimitQueries, offsetQuery \in OffsetQueries :
        /\ Serving
        /\ request' = [op |-> "GET /api/readings",
                       args |-> <<limitQuery, offsetQuery>>]
        /\ response' = getReadings(readingsMap, limitQuery, offsetQuery)
        /\ UNCHANGED <<pc, readingsMap, settingsMap, seeded, nextId,
                       currentPage, itemsPerPage, pages, outsideServer>>

\* GET /api/readings/:id
GetReading ==
    \E id \in 1..(Len(defaultSettings) + MaxCreated) :
        /\ Serving
        /\ request' = [op |-> "GET /api/readings/:id", args |-> <<id>>]
        /\ response' =
              IF ReadingAt(readingsMap, id) = {}
              THEN [status |-> 404, body |-> NullObject]
              ELSE [status |-> 200,
                    body |-> readingsMap[CHOOSE k \in
                                 ReadingAt(readingsMap, id) : TRUE]]
        /\ UNCHANGED <<pc, readingsMap, settingsMap, seeded, nextId,
                       currentPage, itemsPerPage, pages, outsideServer>>

\* POST /api/readings
PostReading ==
    \E body \in SampleReadingBodies, now \in Instants :
        /\ Serving
        /\ request' = [op |-> "POST /api/readings", args |-> <<body>>]
        /\ IF ValidInsertReading(body)
           THEN /\ CanDraw
                /\ LET made == createReading(readingsMap, body,
                                             randomUUID(nextId), now)
                   IN  /\ readingsMap' = made.map
                       /\ response' = [status |-> 201, body |-> made.reading]
                /\ nextId' = nextId + 1
           ELSE /\ response' = [status |-> 400, body |-> NullObject]
                /\ UNCHANGED <<readingsMap, nextId>>
        /\ UNCHANGED <<pc, settingsMap, seeded, currentPage, itemsPerPage,
                       pages, outsideServer>>

\* DELETE /api/readings/:id
DeleteReading ==
    \E id \in 1..(Len(defaultSettings) + MaxCreated) :
        /\ Serving
        /\ request' = [op |-> "DELETE /api/readings/:id", args |-> <<id>>]
        /\ LET gone == deleteReading(readingsMap, id)
           IN  /\ readingsMap' = gone.map
               /\ response' = [status |-> IF gone.deleted THEN 200 ELSE 404,
                               body |-> NullObject]
        /\ UNCHANGED <<pc, settingsMap, seeded, nextId, currentPage,
                       itemsPerPage, pages, outsideServer>>

\* DataView opens: page 0 is fetched.  The page size stands for
\* ITEMS_PER_PAGE, scaled to the size of the store.
OpenDataView ==
    \E size \in 1..MaxLimit :
        /\ Serving
        /\ pc' = "paging"
        /\ itemsPerPage' = size
        /\ currentPage' = 0
        /\ request' = [op |-> "GET /api/readings", args |-> <<<<size>>, <<0>>>>]
        /\ response' = getReadings(readingsMap, <<size>>, <<0>>)
        /\ pages' = response'.body.readings
        /\ UNCHANGED <<readingsMap, settingsMap, seeded, nextId,
                       outsideServer>>

\* DataView.handleNextPage, and the fetch of the page it turns to.
HandleNextPage ==
    /\ pc = "paging"
    /\ response.body.pagination.hasMore
    /\ currentPage' = currentPage + 1
    /\ request' = [op |-> "GET /api/readings",
                   args |-> <<<<itemsPerPage>>,
                              <<currentPage' * itemsPerPage>>>>]
    /\ response' = getReadings(readingsMap, <<itemsPerPage>>,
                               <<currentPage' * itemsPerPage>>)
    /\ pages' = pages \o response'.body.readings
    /\ UNCHANGED <<pc, readingsMap, settingsMap, seeded, nextId,
                   itemsPerPage, outsideServer>>

\* DataView closes.
CloseDataView ==
    /\ pc = "paging"
    /\ pc' = "serving"
    /\ currentPage' = 0
    /\ itemsPerPage' = ITEMS_PER_PAGE
    /\ pages' = <<>>
    /\ UNCHANGED <<readingsMap, settingsMap, seeded, nextId, request,
                   response, outsideServer>>

NextReadings ==
    \/ SeedDefaultSetting
    \/ GetReadings
    \/ GetReading
    \/ PostReading
    \/ DeleteReading
    \/ OpenDataView
    \/ HandleNextPage
    \/ CloseDataView

SpecReadings == InitServer /\ [][NextReadings]_vars

\* PUT /api/settings/:key
PutSetting ==
    \E key \in SampleKeys, value \in SampleSettingValues, now \in Instants :
        LET insertSetting == [key |-> key, value |-> value]
        IN  /\ Serving
            /\ request' = [op |-> "PUT /api/settings/:key",
                           args |-> <<key, value>>]
            /\ IF ValidInsertSetting(insertSetting)
               THEN LET put == setSetting(settingsMap, insertSetting,
                                          randomUUID(nextId), now)
                    IN  /\ put.drew => CanDraw
                        /\ settingsMap' = put.map
                        /\ nextId' = IF put.drew THEN nextId + 1 ELSE nextId
                        /\ response' = [status |-> 200, body |-> put.setting]
               ELSE /\ response' = [status |-> 400, body |-> NullObject]
                    /\ UNCHANGED <<settingsMap, nextId>>
            /\ UNCHANGED <<pc, readingsMap, seeded, currentPage,
                           itemsPerPage, pages, outsideServer>>

\* DELETE /api/settings/:key
DeleteSetting ==
    \E key \in SampleKeys :
        /\ Serving
        /\ request' = [op |-> "DELETE /api/settings/:key", args |-> <<key>>]
        /\ LET gone == deleteSetting(settingsMap, key)
           IN  /\ settingsMap' = gone.map
               /\ response' = [status |-> IF gone.deleted THEN 200 ELSE 404,
                               body |-> NullObject]
        /\ UNCHANGED <<pc, readingsMap, seeded, nextId, currentPage,
                       itemsPerPage, pages, outsideServer>>

NextSettings ==
    \/ SeedDefaultSetting
    \/ PutSetting
    \/ DeleteSetting

SpecSettings == InitServer /\ [][NextSettings]_vars

\* The keys a caller of the store writes while the seeding is under way: a
\* default's key that is still to be seeded, and a new one.
CallerKeys == {JsString("autoInterval"), JsString("theme")}
CallerValues == {JsString("10"), JsString("dark")}

\* A caller of the exported store calls getAllSettings; nothing makes it wait
\* for the seeding the constructor started.
GetAllSettings ==
    /\ pc = "serving"
    /\ request' = [op |-> "getAllSettings", args |-> <<>>]
    /\ response' = [status |-> 200, body |-> settingsMap]
    /\ UNCHANGED <<pc, readingsMap, settingsMap, seeded, nextId, currentPage,
                   itemsPerPage, pages, outsideServer>>

\* A caller of the exported store calls setSetting.
SetSetting ==
    \E key \in CallerKeys, value \in CallerValues, now \in Instants :
        LET put == setSetting(settingsMap, [key |-> key, value |-> value],
                              randomUUID(nextId), now)
        IN  /\ pc = "serving"
            /\ put.drew => CanDraw
            /\ request' = [op |-> "setSetting", args |-> <<key, value>>]
            /\ response' = [status |-> 200, body |-> put.setting]
            /\ settingsMap' = put.map
            /\ nextId' = IF put.drew THEN nextId + 1 ELSE nextId
            /\ UNCHANGED <<pc, readingsMap, seeded, currentPage,
                           itemsPerPage, pages, outsideServer>>

NextSeeding ==
    \/ SeedDefaultSetting
    \/ GetAllSettings
    \/ SetSetting

SpecSeeding == InitServer /\ [][NextSeeding]_vars

\* The orders of the stored readings in which no reading comes before a newer
\* one.
NewestFirstOrders(map) ==
    LET n == Len(map)
        perms == {p \in [1..n -> 1..n] : \A i, j \in 1..n : i # j => p[i] # p[j]}
    IN  {[k \in 1..n |-> map[p[k]]] : p \in
            {q \in perms : \A k \in 1..n : k < n =>
                map[q[k]].timestamp >= map[q[k + 1]].timestamp}}

\* The number of positions of [offset, offset+limit) a store of total
\* readings has.
PositionsIn(offset, limit, total) ==
    IF offset >= total THEN 0
    ELSE IF offset + limit > total THEN total - offset ELSE limit

\* C18: GET /api/readings with limit >= 1 and offset >= 0 answers the
\* readings at positions [offset, offset+limit) of the newest-first order,
\* total equal to the store size and hasMore exactly when
\* offset+limit < total; the successive pages fetched while hasMore, over an
\* unchanged store, hold every stored reading exactly once.
C18_PagesOfNewestFirstOrder ==
    /\ (/\ pc \in {"serving", "paging"}
        /\ request.op = "GET /api/readings"
        /\ request.args[1] # <<>> /\ request.args[2] # <<>>
        /\ request.args[1][1] >= 1 /\ request.args[2][1] >= 0)
       => LET limit == request.args[1][1]
              offset == request.args[2][1]
              total == Len(readingsMap)
              got == response.body.readings
          IN  /\ response.status = 200
              /\ \E order \in NewestFirstOrders(readingsMap) :
                    /\ Len(got) = PositionsIn(offset, limit, total)
                    /\ \A k \in 1..Len(got) : got[k] = order[offset + k]
              /\ response.body.pagination.total = total
              /\ response.body.pagination.hasMore <=> offset + limit < total
    /\ (pc = "paging" /\ ~response.body.pagination.hasMore)
       => /\ Len(pages) = Len(readingsMap)
          /\ \A i \in 1..Len(readingsMap) :
                Cardinality({k \in 1..Len(pages) :
                                pages[k] = readingsMap[i]}) = 1

\* C18 witness: three readings, the newest not created last, were fetched to
\* the last in more than one page.
C18_Witness ==
    /\ pc = "paging"
    /\ currentPage >= 1
    /\ ~response.body.pagination.hasMore
    /\ Len(readingsMap) = 3
    /\ Len(pages) = 3
    /\ readingsMap[1].timestamp > readingsMap[3].timestamp
    /\ pages[1] = readingsMap[1]

\* A reading as POST /api/readings creates it from a request body: the
\* body's value, quantity, unit and mode, and its confidence, or null for
\* none.
CreatedFrom(reading, body) ==
    /\ reading.value = body.value
    /\ reading.quantity = body.quantity
    /\ reading.unit = body.unit
    /\ reading.mode = body.mode
    /\ reading.confidence =
          IF IsString(body.confidence) /\ body.confidence # JsString("")
          THEN body.confidence ELSE JsNull

\* The stored readings have distinct ids.
DistinctReadingIds ==
    \A i, j \in 1..Len(readingsMap) :
        i # j => readingsMap[i].id # readingsMap[j].id

\* What one step of the server does to the stored readings.
ReadingsStep ==
    LET stored(id) == \E k \in 1..Len(readingsMap) : readingsMap[k].id = id
    IN  /\ \A k \in 1..Len(readingsMap') :
              \/ \E i \in 1..Len(readingsMap) : readingsMap'[k] = readingsMap[i]
              \/ /\ request'.op = "POST /api/readings"
                 /\ response'.status = 201
                 /\ readingsMap'[k] = response'.body
                 /\ CreatedFrom(readingsMap'[k], request'.args[1])
                 /\ ~stored(readingsMap'[k].id)
        /\ request'.op = "DELETE /api/readings/:id" /\ stored(request'.args[1])
           => /\ response'.status = 200
              /\ readingsMap' = SelectSeq(readingsMap,
                                    LAMBDA r : r.id # request'.args[1])
              /\ Len(readingsMap') = Len(readingsMap) - 1
        /\ (/\ request'.op \in {"GET /api/readings/:id",
                                "DELETE /api/readings/:id"}
            /\ ~stored(request'.args[1]))
           => /\ response'.status = 404
              /\ readingsMap' = readingsMap

\* C19: after any creations and deletions the stored readings have distinct
\* ids and the fields they were created with; DELETE of a stored id removes
\* that reading alone; GET or DELETE of an id not stored answers 404 and
\* leaves the store as it was.
C19_ReadingsImmutableAndDeletedById ==
    []DistinctReadingIds /\ [][ReadingsStep]_vars

\* C19 witness: of three readings created, one was deleted and two remain,
\* one of them created with an empty confidence.
C19_Witness ==
    /\ request.op = "DELETE /api/readings/:id"
    /\ response.status = 200
    /\ Len(readingsMap) = 2
    /\ nextId = Len(defaultSettings) + 4
    /\ \E k \in 1..2 : readingsMap[k].confidence = JsNull

\* The store holds at most one Setting per key.
OneSettingPerKey ==
    \A i, j \in 1..Len(settingsMap) :
        i # j => settingsMap[i].key # settingsMap[j].key

\* The settings stored under key.
SettingsOf(map, key) == {map[k] : k \in SettingAt(map, key)}

\* What one accepted or refused PUT does to the stored settings.
PutStep ==
    request'.op = "PUT /api/settings/:key" =>
        LET key == request'.args[1]
            before == SettingsOf(settingsMap, key)
            after == SettingsOf(settingsMap', key)
        IN  /\ response'.status = 200 /\ before # {}
               => /\ \A s \in after : s.value = request'.args[2]
                  /\ {s.id : s \in after} = {s.id : s \in before}
                  /\ Len(settingsMap') = Len(settingsMap)
            /\ response'.status = 200 /\ before = {}
               => /\ Cardinality(after) = 1
                  /\ \A s \in after : s.value = request'.args[2]
                  /\ Len(settingsMap') = Len(settingsMap) + 1
            /\ \A other \in SampleKeys \cup
                            {defaultSettings[k].key :
                                k \in 1..Len(defaultSettings)} :
                  other # key => SettingsOf(settingsMap', other)
                                     = SettingsOf(settingsMap, other)

\* C20: after any PUTs and DELETEs the store holds at most one Setting per
\* key; a PUT to an existing key replaces its value and keeps its id, a PUT
\* to a new key creates one row, and no PUT changes a Setting stored under
\* another key.
C20_SettingsUpsertedByKey ==
    []OneSettingPerKey /\ [][PutStep]_vars

\* C20 witness: with a row created for a new key, a PUT replaced the value of
\* the first default and kept its id.
C20_Witness ==
    /\ request.op = "PUT /api/settings/:key"
    /\ request.args[1] = JsString("threshold")
    /\ response.status = 200
    /\ Len(settingsMap) = Len(defaultSettings) + 1
    /\ settingsMap[1].key = JsString("threshold")
    /\ settingsMap[1].value = JsString("200")
    /\ settingsMap[1].id = 1

\* What a read of the settings sees, and what a resumption of the seeding
\* leaves alone.
SeedingStep ==
    /\ request'.op = "getAllSettings"
       => \A d \in 1..Len(defaultSettings) :
             \E k \in 1..Len(response'.body) :
                response'.body[k].key = defaultSettings[d].key
    /\ seeded' # seeded
       => \A k \in 1..Len(settingsMap) :
             \A s \in SettingsOf(settingsMap', settingsMap[k].key) :
                s.value = settingsMap[k].value

\* C21: every read of the settings made after the constructor has returned
\* sees the five defaults, and the seeding never overwrites a value a
\* setSetting call wrote after construction.
C21_DefaultsSeededAtConstruction == [][SeedingStep]_vars

\* ---------------------------------------------------------------------------
\* ReplayView: playback of a loaded CSV file (part_003).
\* ---------------------------------------------------------------------------

\* The readings of a loaded file, the playback timers one run may create, and
\* the readings spoken that are kept.
MaxLoaded == 3
MaxPlaybackTimers == 2
MaxSpoken == 4

\* The files loaded: readCSVFile gave n readings of the file.
ReplayFiles == {[name |-> f, n |-> k] : f \in {"A", "B"}, k \in 1..MaxLoaded}

\* playReading(readings[index]) with the speech switch on, as it is when the
\* view opens: the reading is handed to speechService.speakReading.
playReading(said, loaded, index) ==
    IF index >= 0 /\ index < loaded.n
    THEN Append(said, [name |-> loaded.name, index |-> index])
    ELSE said

\* setInterval in startPlayback: the callback closes over the readings of the
\* render that started the playback.
PlaybackTimer(id, loaded) == [id |-> id, readings |-> loaded]

outsideReplay == <<csvVars, lineVars, formatVars, decoderVars, detectorVars,
    extractorVars, scorerVars, pipelineVars, ocrVars, cameraVars, serverVars,
    serviceVars, hookVars>>
IdleOutsideReplay ==
    IdleCsv /\ IdleLine /\ IdleFormat /\ IdleDecoder /\ IdleDetector
    /\ IdleExtractor /\ IdleScorer /\ IdlePipeline /\ IdleOcr /\ IdleCamera
    /\ IdleServer /\ IdleService /\ IdleHook

\* ReplayView as it opens: no readings, stopped, no timer.
InitReplay ==
    /\ pc = "replay"
    /\ IdleReplay
    /\ IdleOutsideReplay

\* handleFileSelect with a valid file, another than the one loaded: the
\* readings, the index and the playback state are set; the interval timer is
\* not touched.
HandleFileSelect ==
    \E file \in ReplayFiles :
        /\ pc = "replay"
        /\ file.name # replayReadings.name
        /\ replayReadings' = file
        /\ currentIndex' = 0
        /\ playbackState' = "stopped"
        /\ UNCHANGED <<pc, intervalRef, playbackTimers, nextPlaybackTimer,
                       spoken, outsideReplay>>

\* startPlayback.
StartPlayback ==
    IF replayReadings.n = 0
    THEN UNCHANGED <<playbackState, intervalRef, playbackTimers,
                     nextPlaybackTimer, spoken, currentIndex>>
    ELSE /\ nextPlaybackTimer <= MaxPlaybackTimers
         /\ playbackState' = "playing"
         /\ playbackTimers' = playbackTimers \cup
               {PlaybackTimer(nextPlaybackTimer, replayReadings)}
         /\ intervalRef' = nextPlaybackTimer
         /\ nextPlaybackTimer' = nextPlaybackTimer + 1
         /\ spoken' = playReading(<<>>, replayReadings, currentIndex)
         /\ UNCHANGED currentIndex

\* pausePlayback.
PausePlayback ==
    /\ playbackState' = "paused"
    /\ playbackTimers' = {t \in playbackTimers : t.id # intervalRef}
    /\ intervalRef' = 0
    /\ UNCHANGED <<currentIndex, nextPlaybackTimer, spoken>>

\* handleTogglePlayback: the Play / Pause button.
HandleTogglePlayback ==
    /\ pc = "replay"
    /\ IF playbackState = "playing" THEN PausePlayback ELSE StartPlayback
    /\ UNCHANGED <<pc, replayReadings, outsideReplay>>

\* stopPlayback: the Stop button.
StopPlayback ==
    /\ pc = "replay"
    /\ playbackState' = "stopped"
    /\ currentIndex' = 0
    /\ playbackTimers' = {t \in playbackTimers : t.id # intervalRef}
    /\ intervalRef' = 0
    /\ UNCHANGED <<pc, replayReadings, nextPlaybackTimer, spoken,
                   outsideReplay>>

\* A playback interval timer fires: the updater handed to setCurrentIndex,
\* with the readings the timer closes over.
PlaybackTick ==
    \E t \in playbackTimers :
        LET nextIndex == currentIndex + 1
        IN  /\ pc = "replay"
            /\ Len(spoken) < MaxSpoken
            /\ IF nextIndex >= t.readings.n
               THEN /\ playbackState' = "stopped"
                    /\ currentIndex' = 0
                    /\ playbackTimers' =
                          {u \in playbackTimers : u.id # intervalRef}
                    /\ intervalRef' = 0
                    /\ UNCHANGED spoken
               ELSE /\ spoken' = playReading(spoken, t.readings, nextIndex)
                    /\ currentIndex' = nextIndex
                    /\ UNCHANGED <<playbackState, playbackTimers,
                                   intervalRef>>
            /\ UNCHANGED <<pc, replayReadings, nextPlaybackTimer,
                           outsideReplay>>

NextReplay ==
    \/ HandleFileSelect
    \/ HandleTogglePlayback
    \/ StopPlayback
    \/ PlaybackTick

\* The timers fire as long as they are set.
SpecReplay == InitReplay /\ [][NextReplay]_vars /\ WF_vars(PlaybackTick)

\* While playback runs undisturbed: one timer is set, and the readings spoken
\* since it started at index i are i, i+1, ... up to the current index, each
\* once, of the loaded file.
PlaysInOrder ==
    playbackState = "playing" =>
        /\ intervalRef # 0
        /\ \A t \in playbackTimers : t.id = intervalRef
        /\ currentIndex < replayReadings.n
        /\ spoken # <<>>
        /\ spoken[Len(spoken)].index = currentIndex
        /\ \A k \in 1..Len(spoken) :
              /\ spoken[k].name = replayReadings.name
              /\ spoken[k].index = spoken[1].index + k - 1

\* How playback ends: past the last reading it stops, at index 0 and with no
\* timer left; a pause keeps the index and a stop resets it.
PlaybackEnds ==
    /\ (playbackState = "playing" /\ playbackState' = "stopped"
        /\ replayReadings' = replayReadings)
       => currentIndex' = 0 /\ intervalRef' = 0 /\ playbackTimers' = {}
    /\ (playbackState = "playing" /\ playbackState' = "playing")
       => currentIndex' = currentIndex + 1
    /\ playbackState' = "paused" => currentIndex' = currentIndex
    /\ (playbackState' = "stopped" /\ playbackState # "stopped")
       => currentIndex' = 0

\* C24: playback started at index i of n readings speaks readings i..n-1 once
\* each in order, then stops with currentIndex 0 and its timer cleared; pause
\* keeps currentIndex and stop resets it to 0.
C24_PlaybackSpeaksInOrderThenStops ==
    /\ []PlaysInOrder
    /\ [][PlaybackEnds]_vars
    /\ (playbackState = "playing") ~> (playbackState # "playing")

\* ---------------------------------------------------------------------------
\* The OCR service and its hook: TesseractService.initialize and terminate
\* (tesseract-service.ts), useTesseract's effect (use-tesseract.ts).
\* ---------------------------------------------------------------------------

\* The instances of the hook mounted in one run, and the workers created.
MaxHooks == 3
MaxWorkers == 2

\* TesseractService.initialize up to its first await, called for the hook
\* instance hook: it returns at once if isInitialized, and awaits createWorker
\* if not.
initialize(initialized, hook) ==
    [hook |-> hook,
     step |-> IF initialized THEN "returned" ELSE "creating",
     worker |-> 0]

outsideService == <<csvVars, lineVars, formatVars, decoderVars, detectorVars,
    extractorVars, scorerVars, pipelineVars, recognition, ocrResult,
    cameraVars, serverVars, replayVars, hookVars>>
IdleOutsideService ==
    IdleCsv /\ IdleLine /\ IdleFormat /\ IdleDecoder /\ IdleDetector
    /\ IdleExtractor /\ IdleScorer /\ IdlePipeline /\ recognition = NullObject
    /\ ocrResult = NullObject /\ IdleCamera /\ IdleServer /\ IdleReplay
    /\ IdleHook

\* The service singleton before any component uses it.
InitService ==
    /\ pc = "ocr"
    /\ IdleService
    /\ ocrReady = FALSE /\ isInitialized = FALSE /\ worker = "null"
    /\ IdleOutsideService

\* A component using useTesseract mounts: the effect calls initialize.
MountHook ==
    /\ pc = "ocr"
    /\ hookMounted = 0
    /\ nextHook <= MaxHooks
    /\ hookMounted' = nextHook
    /\ nextHook' = nextHook + 1
    /\ ocrReady' = FALSE
    /\ initCalls' = initCalls \cup {initialize(isInitialized, nextHook)}
    /\ UNCHANGED <<pc, isInitialized, worker, workerId, workers, liveWorkers,
                   terminateCalls, outsideService>>

\* createWorker resolves for an initialize call: this.worker is assigned and
\* setParameters is awaited.
CreateWorkerResolves ==
    \E call \in initCalls :
        LET created == Cardinality(workers) + 1
        IN  /\ pc = "ocr"
            /\ call.step = "creating"
            /\ created <= MaxWorkers
            /\ workers' = workers \cup {created}
            /\ liveWorkers' = liveWorkers \cup {created}
            /\ workerId' = created
            /\ worker' = "live"
            /\ initCalls' = (initCalls \ {call}) \cup
                  {[call EXCEPT !.step = "configuring", !.worker = created]}
            /\ UNCHANGED <<pc, ocrReady, isInitialized, terminateCalls,
                           hookMounted, nextHook, outsideService>>

\* setParameters resolves for an initialize call: isInitialized is set and
\* initialize returns.  On a worker terminated meanwhile it may reject, and
\* initialize throws.
SetParametersResolves ==
    \E call \in initCalls, rejects \in BOOLEAN :
        /\ pc = "ocr"
        /\ call.step = "configuring"
        /\ rejects => call.worker \notin liveWorkers
        /\ isInitialized' = IF rejects THEN isInitialized ELSE TRUE
        /\ initCalls' = (initCalls \ {call}) \cup
              {[call EXCEPT !.step = IF rejects THEN "threw" ELSE "returned"]}
        /\ UNCHANGED <<pc, ocrReady, worker, workerId, workers, liveWorkers,
                       terminateCalls, hookMounted, nextHook, outsideService>>

\* The hook's initializeTesseract resumes after initialize: setIsReady, which
\* does nothing if the instance has unmounted.
InitializeTesseractResumes ==
    \E call \in initCalls :
        /\ pc = "ocr"
        /\ call.step \in {"returned", "threw"}
        /\ initCalls' = initCalls \ {call}
        /\ ocrReady' = IF call.hook = hookMounted
                       THEN call.step = "returned" ELSE ocrReady
        /\ UNCHANGED <<pc, isInitialized, worker, workerId, workers,
                       liveWorkers, terminateCalls, hookMounted, nextHook,
                       outsideService>>

\* The component unmounts: the effect's cleanup calls terminate, which calls
\* worker.terminate() on this.worker, if there is one, and awaits it.
UnmountHook ==
    /\ pc = "ocr"
    /\ hookMounted # 0
    /\ hookMounted' = 0
    /\ ocrReady' = FALSE
    /\ IF workerId # 0
       THEN /\ liveWorkers' = liveWorkers \ {workerId}
            /\ terminateCalls' = terminateCalls \cup {workerId}
            /\ worker' = "terminated"
       ELSE UNCHANGED <<liveWorkers, terminateCalls, worker>>
    /\ UNCHANGED <<pc, isInitialized, workerId, workers, initCalls, nextHook,
                   outsideService>>

\* worker.terminate() resolves for a terminate call: this.worker and
\* isInitialized are reset, whatever they are by now.
TerminateResumes ==
    \E terminated \in terminateCalls :
        /\ pc = "ocr"
        /\ terminateCalls' = terminateCalls \ {terminated}
        /\ workerId' = 0
        /\ worker' = "null"
        /\ isInitialized' = FALSE
        /\ UNCHANGED <<pc, ocrReady, workers, liveWorkers, initCalls,
                       hookMounted, nextHook, outsideService>>

NextService ==
    \/ MountHook
    \/ CreateWorkerResolves
    \/ SetParametersResolves
    \/ InitializeTesseractResumes
    \/ UnmountHook
    \/ TerminateResumes

SpecService == InitService /\ [][NextService]_vars

\* C25: a mounted hook that reports isReady has the service initialized over
\* a live worker.
C25_ReadyHookHasLiveWorker ==
    hookMounted # 0 /\ ocrReady =>
        isInitialized /\ workerId \in liveWorkers

\* C26: at most one worker is live, and it is the one this.worker holds, so
\* that terminate reaches every worker created.
C26_AtMostOneWorker ==
    /\ Cardinality(liveWorkers) <= 1
    /\ \A w \in liveWorkers : w = workerId

\* ---------------------------------------------------------------------------
\* The camera hook: useCamera's startCamera, stopCamera and unmount cleanup.
\* ---------------------------------------------------------------------------

\* The streams getUserMedia hands out in one run, and the calls of
\* startCamera.
MaxStreams == 2
MaxStarts == 4

\* cameraConfigs: startCamera tries three constraint sets in turn.
CameraConfigs == 3

\* The names of the DOMExceptions getUserMedia rejects with; AbortError
\* stands for those the switch has no case for.
ErrorNames == {"NotAllowedError", "NotFoundError", "NotSupportedError",
               "OverconstrainedError", "SecurityError", "AbortError"}

\* The catch block's switch on error.name.
errorMessage(name) ==
    CASE name = "NotAllowedError" -> "Camera access denied"
      [] name = "NotFoundError" -> "No camera found"
      [] name = "NotSupportedError" -> "Camera not supported"
      [] name = "OverconstrainedError" -> "Camera constraints not supported"
      [] name = "SecurityError" -> "Camera access blocked"
      [] OTHER -> "Camera error"

NoAcquisition == [config |-> 0, lastError |-> "none"]

\* What a render's closures see of the state.  The unmount cleanups were
\* created by the first render, whose state is the initial one.
FirstRender == [stream |-> 0, isActive |-> FALSE]
CurrentRender == [stream |-> stream, isActive |-> isActive]

\* stopCamera of the render closure: the streams it stops, which are those
\* of the closure's state.stream.
stopCamera(closure) ==
    IF closure.stream # 0 THEN {closure.stream} ELSE {}

outsideHook == <<csvVars, lineVars, formatVars, decoderVars, detectorVars,
    extractorVars, scorerVars, pipelineVars, ocrVars, cameraVars, serverVars,
    replayVars, serviceVars>>
IdleOutsideHook ==
    IdleCsv /\ IdleLine /\ IdleFormat /\ IdleDecoder /\ IdleDetector
    /\ IdleExtractor /\ IdleScorer /\ IdlePipeline /\ IdleOcr /\ IdleCamera
    /\ IdleServer /\ IdleReplay /\ IdleService

\* useCamera's first render.
InitHook ==
    /\ pc = "useCamera"
    /\ IdleHook
    /\ IdleOutsideHook

\* startCamera of the render closure, up to its first await: nothing if the
\* closure's isActive, and the first getUserMedia call otherwise.
StartCamera(closure) ==
    /\ starts < MaxStarts
    /\ starts' = starts + 1
    /\ IF closure.isActive
       THEN UNCHANGED <<isLoading, cameraError, acquisition>>
       ELSE /\ isLoading' = TRUE
            /\ cameraError' = "null"
            /\ acquisition' = [config |-> 1, lastError |-> "none"]
    /\ UNCHANGED <<pc, stream, isActive, streams, stoppedStreams, hookAlive,
                   outsideHook>>

\* CameraView's mount effect starts the camera.
MountEffect ==
    /\ pc = "useCamera"
    /\ hookAlive
    /\ starts = 0
    /\ StartCamera(FirstRender)

\* The Try Again button, shown with the error while no stream is shown.
TryAgain ==
    /\ pc = "useCamera"
    /\ hookAlive
    /\ cameraError # "null"
    /\ ~(isActive /\ stream # 0)
    /\ StartCamera(CurrentRender)

\* getUserMedia resolves with a stream: startCamera sets stream and isActive.
\* setState does nothing once the component has unmounted.
GetUserMediaResolves ==
    LET obtained == Cardinality(streams) + 1
    IN  /\ pc = "useCamera"
        /\ acquisition # NoAcquisition
        /\ obtained <= MaxStreams
        /\ streams' = streams \cup {obtained}
        /\ acquisition' = NoAcquisition
        /\ IF hookAlive
           THEN /\ stream' = obtained
                /\ isLoading' = FALSE
                /\ isActive' = TRUE
           ELSE UNCHANGED <<stream, isLoading, isActive>>
        /\ UNCHANGED <<pc, cameraError, stoppedStreams, starts, hookAlive,
                       outsideHook>>

\* getUserMedia rejects: the next configuration is tried, or, after the last
\* one or a permission error, the catch block sets the error.
GetUserMediaRejects ==
    \E name \in ErrorNames :
        /\ pc = "useCamera"
        /\ acquisition # NoAcquisition
        /\ IF name # "NotAllowedError" /\ acquisition.config < CameraConfigs
           THEN /\ acquisition' = [config |-> acquisition.config + 1,
                                   lastError |-> name]
                /\ UNCHANGED <<cameraError, isLoading, isActive>>
           ELSE /\ acquisition' = NoAcquisition
                /\ IF hookAlive
                   THEN /\ cameraError' = errorMessage(name)
                        /\ isLoading' = FALSE
                        /\ isActive' = FALSE
                   ELSE UNCHANGED <<cameraError, isLoading, isActive>>
        /\ UNCHANGED <<pc, stream, streams, stoppedStreams, starts, hookAlive,
                       outsideHook>>

\* The component unmounts: the hook's cleanup and CameraView's both call the
\* first render's stopCamera.
CleanupOnUnmount ==
    /\ pc = "useCamera"
    /\ hookAlive
    /\ hookAlive' = FALSE
    /\ stoppedStreams' = stoppedStreams \cup stopCamera(FirstRender)
    /\ UNCHANGED <<pc, stream, isActive, isLoading, cameraError, streams,
                   acquisition, starts, outsideHook>>

NextHook ==
    \/ MountEffect
    \/ TryAgain
    \/ GetUserMediaResolves
    \/ GetUserMediaRejects
    \/ CleanupOnUnmount

SpecHook == InitHook /\ [][NextHook]_vars

\* isActive is true exactly when a stream is held.
ActiveIffStreamHeld == isActive <=> stream # 0

\* C27: isActive is true exactly when a stream is held, and once the
\* component has unmounted every stream startCamera obtained is stopped.
C27_StreamsStoppedAfterUnmount ==
    /\ ActiveIffStreamHeld
    /\ ~hookAlive => streams \subseteq stoppedStreams

\* ---------------------------------------------------------------------------
\* From detection to segment analysis: processImage hands every region that
\* detectDisplay retains to analyzeSegments.
\* ---------------------------------------------------------------------------

\* The widest and the tallest outline.
MaxRegionWidth == 24
MaxRegionHeight == 60

\* Thresholded images with one filled white rectangle on black, at the left
\* edge or one pixel off it.
FilledOutlines ==
    {Rect(x, 0, w, h) : x \in 0..1, w \in 1..MaxRegionWidth,
                        h \in 1..MaxRegionHeight}
OutlineImages ==
    {[cols |-> MaxRegionWidth + 1, rows |-> MaxRegionHeight, white |-> {r}] :
        r \in FilledOutlines}

\* A segment's sub-rectangle has an extent and lies inside the region.
SegmentFits(sr, rect) ==
    /\ sr.x >= 0 /\ sr.y >= 0
    /\ sr.width > 0 /\ sr.height > 0
    /\ sr.x + sr.width <= rect.width
    /\ sr.y + sr.height <= rect.height

outsideRegions == outsideExtractor
IdleOutsideRegions == IdleOutsideExtractor

\* An image comes out of preprocessImage; cv.findContours finds its outline.
InitRegions ==
    /\ pc = "outline"
    /\ isReady = TRUE
    /\ binaryImage \in OutlineImages
    /\ contourRects \in UNION {Orderings(OutlineRects(img)) :
                                  img \in {binaryImage}}
    /\ digitRegions = <<>>
    /\ digitRect = NullObject
    /\ segmentStates = AllOff
    /\ IdleOutsideRegions

\* processImage calls detectDisplay.
DetectRegions ==
    /\ pc = "outline"
    /\ digitRegions' = detectDisplay(isReady, contourRects)
    /\ pc' = "detected"
    /\ UNCHANGED <<isReady, contourRects, extractorVars, outsideRegions>>

\* processImage calls analyzeSegments for the region retained.
AnalyzeRegion ==
    /\ pc = "detected"
    /\ digitRegions # <<>>
    /\ digitRect' = digitRegions[1]
    /\ segmentStates' = analyzeSegments(isReady, binaryImage, digitRegions[1])
    /\ pc' = "analyzed-region"
    /\ UNCHANGED <<binaryImage, detectorVars, outsideRegions>>

NextRegions ==
    \/ DetectRegions
    \/ AnalyzeRegion

SpecRegions == InitRegions /\ [][NextRegions]_vars

\* C28: every region the detector retains has positive width and height, and
\* each of its seven floor-rounded segment sub-rectangles has positive width
\* and height and lies inside the region; so no segment is forced off by the
\* bounds check: of a filled outline every segment is on.
C28_RetainedRegionsFitAllSegments ==
    /\ \A i \in 1..Len(digitRegions) :
          /\ digitRegions[i].width > 0
          /\ digitRegions[i].height > 0
          /\ \A n \in SegmentNames :
                SegmentFits(segmentRect(segmentPositions[n], digitRegions[i]),
                            digitRegions[i])
    /\ pc = "analyzed-region" => \A n \in SegmentNames : segmentStates[n]

\* C28 witness: the narrowest region retained, 14 x 36, was analyzed, and its
\* side segments are 2 pixels wide.
C28_Witness ==
    /\ pc = "analyzed-region"
    /\ digitRect = Rect(1, 0, 14, 36)
    /\ segmentRect(segmentPositions.b, digitRect).width = 2
    /\ \A n \in SegmentNames : segmentStates[n]

====
